---- MODULE Spec2Model ----
(***************************************************************************)
(* Model of the wallet transaction engine of electrum-mona                 *)
(* (electrum_mona/wallet.py): the gap-limit synchronizer, the co-signing   *)
(* of partial transactions, and the builder / fee-control operations.      *)
(*                                                                         *)
(* The module holds several state machines over one set of variables:      *)
(*   SpecSync     - Deterministic_Wallet address generation and history    *)
(*   SpecSign     - sign_transaction among the cosigners of a multisig     *)
(*                  wallet                                                 *)
(*   SpecFee      - make_unsigned_transaction, bump_fee, cpfp, sweep       *)
(*   SpecBatch    - batching onto an unconfirmed transaction, cpfp,        *)
(*                  get_tx_info, dscancel                                  *)
(*   SpecHistory  - get_unconfirmed_base_tx_for_batching over a history    *)
(*   SpecAddr     - check_address and the address getters on a damaged     *)
(*                  address table                                          *)
(*   SpecDerive   - derive_address of standard and multisig wallets        *)
(*   SpecLearn    - can_sign and sign_transaction on inputs of addresses   *)
(*                  the wallet has not generated                           *)
(*   SpecFreeze   - frozen addresses and coins, get_spendable_coins        *)
(*   SpecLocktime - get_locktime_for_new_transaction                       *)
(*   SpecThreads  - create_new_address, synchronize and the freeze calls,  *)
(*                  statement by statement, in two threads                 *)
(*   SpecSyncLoop - synchronize() step by step on a reported history       *)
(*   SpecMktx     - mktx, sweep and bump_fee of what they return           *)
(*   SpecUnused   - the cache of unused change addresses                   *)
(*   SpecGap      - change_gap_limit and min_acceptable_gap                *)
(*   SpecImported - Imported_Wallet: import and delete_address             *)
(* Each specification leaves the variables it does not use at their        *)
(* initial values.                                                         *)
(***************************************************************************)
EXTENDS Integers, Sequences, FiniteSets, TLC

VARIABLES
    receiving_addresses,  \* db.receiving_addresses: sequence of addresses
    change_addresses,     \* db.change_addresses: sequence of addresses
    addr_history,         \* address -> highest confirmation count of its history, -1: none
    synced,               \* TRUE in the state a completed synchronize() call returns in
    unused_change_addresses,
                          \* _unused_change_addresses: the cached list of unused change addresses
    gap_limit             \* self.gap_limit: the gap limit of the receiving branch

VARIABLES
    txs,                  \* the copies of a transaction held by the cosigners: view -> transaction
    signed_by,            \* view -> signing wallets whose sign_transaction was called on that copy
    last_op,              \* what the last signing-protocol operation was and how it ended
    ephemeral_addr_to_addr_index
                          \* _ephemeral_addr_to_addr_index: learned address -> (branch, index)

sync_vars ==
    <<receiving_addresses, change_addresses, addr_history, synced, unused_change_addresses,
      gap_limit>>

VARIABLES
    wallet_tx,            \* the unconfirmed transaction of the wallet that fee control acts on
    tx_fee_known,         \* whether get_tx_fee knows the fee of wallet_tx
    utxos,                \* the unspent coins of the wallet's addresses
    batch_rbf,            \* config.get('batch_rbf'): new payments are merged into an unconfirmed one
    history,              \* get_history(): the wallet's history items, in the order it lists them
    frozen_addresses,     \* addresses excluded from coin selection
    frozen_coins,         \* outpoints excluded from coin selection
    network,              \* the network object: connected or not, its chain tip
    lock,                 \* self.lock (an RLock): the thread that owns it and how often
    threads,              \* thread -> the call it is in, its position and its local variables
    db,                   \* what the db holds: 'frozen_addresses', 'frozen_coins', 'gap_limit',
                          \* and the addresses, history, labels, requests and
                          \* keystore of an imported wallet
    res                   \* the last builder / fee-control call: its arguments and outcome

sign_vars == <<txs, signed_by, last_op, ephemeral_addr_to_addr_index>>

\* What the builder and fee-control calls only read.
thread_vars == <<lock, threads>>

wallet_vars ==
    <<wallet_tx, tx_fee_known, utxos, batch_rbf, history, frozen_addresses, frozen_coins,
      network, thread_vars, db>>

fee_vars == <<wallet_vars, res>>

vars == <<sync_vars, sign_vars, fee_vars>>

\* Bounds of the model.
GapLimit == 2          \* the wallet's configured gap_limit (db 'gap_limit')
MaxHistIndex == 2      \* the address synchronizer reports history for indices 0..MaxHistIndex
MaxUsed == 2           \* at most this many addresses receive history
MaxManual == 1         \* create_new_address calls made outside synchronize()

(***************************************************************************)
(* Helpers                                                                 *)
(***************************************************************************)
Range(s) == {s[i] : i \in DOMAIN s}

Max(a, b) == IF a >= b THEN a ELSE b

\* network is None: the wallet is offline.
NoNetwork == [connected |-> FALSE]

\* The wallet's threads.
Threads == {"gui", "network"}

\* No thread owns the lock.
NoOwner == "none"

\* A thread that is in no wallet call.
IdleThread ==
    [pc |-> "idle", caller |-> "none", for_change |-> 0, n |-> 0, op |-> "none",
     target |-> {}, freeze |-> FALSE, snapshot |-> {}]

\* The db of a wallet without imported addresses, history, labels or requests.
EmptyDb ==
    [frozen_addresses |-> {}, frozen_coins |-> {}, gap_limit |-> GapLimit,
     imported_addresses |-> << >>, history |-> << >>, transactions |-> {},
     labels |-> {}, payment_requests |-> {},
     keystore |-> [present |-> TRUE, keypairs |-> {}]]

\* No thread is in a wallet call; nothing is frozen, in memory or in the db;
\* the gap limit is the one the db holds.
IdleThreadVars ==
    /\ lock = [owner |-> NoOwner, count |-> 0]
    /\ threads = [t \in Threads |-> IdleThread]
    /\ frozen_addresses = {}
    /\ frozen_coins = {}
    /\ gap_limit = GapLimit
    /\ db = EmptyDb

\* The signing protocol at rest (no transaction in circulation).
IdleSignVars ==
    /\ txs = << >>
    /\ signed_by = << >>
    /\ last_op = [op |-> "none"]
    /\ ephemeral_addr_to_addr_index = << >>

\* No transaction under fee control, no coins, no call made.
IdleFeeVars ==
    /\ wallet_tx = [txid |-> "none", inputs |-> {}, outputs |-> << >>, final |-> TRUE,
                    height |-> "local"]
    /\ tx_fee_known = FALSE
    /\ IdleThreadVars
    /\ network = NoNetwork
    /\ utxos = {}
    /\ batch_rbf = FALSE
    /\ history = << >>
    /\ res = [op |-> "none"]
    /\ unused_change_addresses = change_addresses

(***************************************************************************)
(* Gap-limit synchronizer (Deterministic_Wallet)                           *)
(***************************************************************************)
\* Program constants.
gap_limit_for_change == 6
REQ_CONF == 3

NO_HISTORY == 0 - 1

Branches == {0, 1}     \* for_change: 0 receiving, 1 change

HistAddresses == Branches \X (0 .. MaxHistIndex)

\* derive_address(for_change, n): the address is identified by its path.
derive_address(for_change, n) == <<for_change, n>>

\* Highest confirmation count among the history items of an address
\* (max_conf in address_is_old), -1 when the address has no history.
max_conf(address) ==
    IF address \in DOMAIN addr_history THEN addr_history[address] ELSE NO_HISTORY

\* db.get_addr_history(address) is non-empty
has_history(address) == max_conf(address) # NO_HISTORY

address_is_old_off_by_one(address) == max_conf(address) > REQ_CONF

address_is_old(address) == max_conf(address) >= REQ_CONF

create_new_address_skipping_an_index(addrs, for_change) ==
    Append(addrs, derive_address(for_change, Len(addrs) + 1))

\* create_new_address: n is the current count, the new address is appended.
create_new_address(addrs, for_change) ==
    Append(addrs, derive_address(for_change, Len(addrs)))

limit_of(for_change) == IF for_change = 1 THEN gap_limit_for_change ELSE gap_limit

\* addresses[-limit:]
last_few_addresses(addrs, limit) ==
    {addrs[i] : i \in {j \in DOMAIN addrs : j > Len(addrs) - limit}}

RECURSIVE synchronize_sequence(_, _)
synchronize_sequence(addrs, for_change) ==
    LET limit == limit_of(for_change)
    IN  IF Len(addrs) < limit
        THEN synchronize_sequence(create_new_address(addrs, for_change), for_change)
        ELSE IF \E a \in last_few_addresses(addrs, limit) : address_is_old(a)
             THEN synchronize_sequence(create_new_address(addrs, for_change), for_change)
             ELSE addrs

\* process_addresses(addrs, gap_limit): the addresses of addrs that are
\* found, given the number of unused addresses that directly precede addrs.
\* A used address resets that number and is not added.
RECURSIVE process_addresses(_, _, _)
process_addresses(addrs, limit, rolling_num_unused) ==
    IF addrs = << >> THEN {}
    ELSE IF has_history(Head(addrs))
    THEN process_addresses(Tail(addrs), limit, 0)
    ELSE (IF rolling_num_unused >= limit THEN {Head(addrs)} ELSE {})
            \cup process_addresses(Tail(addrs), limit, rolling_num_unused + 1)

\* get_all_known_addresses_beyond_gap_limit()
get_all_known_addresses_beyond_gap_limit ==
    process_addresses(receiving_addresses, gap_limit, 0)
        \cup process_addresses(change_addresses, gap_limit_for_change, 0)

\* synchronize(): both branches, under the wallet lock, run to completion.
Synchronize ==
    /\ receiving_addresses' = synchronize_sequence(receiving_addresses, 0)
    /\ change_addresses' = synchronize_sequence(change_addresses, 1)
    /\ unused_change_addresses' =
          unused_change_addresses
              \o SubSeq(change_addresses', Len(change_addresses) + 1, Len(change_addresses'))
    /\ synced' = TRUE
    /\ UNCHANGED <<addr_history, gap_limit, sign_vars, fee_vars>>

\* create_new_address called directly (not from synchronize_sequence).
CreateNewAddress(for_change) ==
    /\ Len(receiving_addresses) + Len(change_addresses)
          < GapLimit + gap_limit_for_change + MaxManual
    /\ IF for_change = 1
       THEN /\ change_addresses' = create_new_address(change_addresses, 1)
            /\ unused_change_addresses' =
                  Append(unused_change_addresses, derive_address(1, Len(change_addresses)))
            /\ UNCHANGED receiving_addresses
       ELSE /\ receiving_addresses' = create_new_address(receiving_addresses, 0)
            /\ UNCHANGED <<change_addresses, unused_change_addresses>>
    /\ synced' = FALSE
    /\ UNCHANGED <<addr_history, gap_limit, sign_vars, fee_vars>>

\* The address synchronizer reports a new (unconfirmed) transaction for an address.
ReceiveTx(address) ==
    /\ addr_history[address] = NO_HISTORY
    /\ Cardinality({a \in HistAddresses : addr_history[a] # NO_HISTORY}) < MaxUsed
    /\ addr_history' = [addr_history EXCEPT ![address] = 0]
    /\ synced' = FALSE
    /\ UNCHANGED <<receiving_addresses, change_addresses, unused_change_addresses, gap_limit,
                   sign_vars, fee_vars>>

\* The transaction of an address gains a confirmation (capped at REQ_CONF).
ConfirmTx(address) ==
    /\ addr_history[address] # NO_HISTORY
    /\ addr_history[address] < REQ_CONF
    /\ addr_history' = [addr_history EXCEPT ![address] = @ + 1]
    /\ synced' = FALSE
    /\ UNCHANGED <<receiving_addresses, change_addresses, unused_change_addresses, gap_limit,
                   sign_vars, fee_vars>>

\* Deterministic_Wallet.__init__ of a new wallet: no history, synchronize() has run.
InitSyncVars ==
    /\ addr_history = [a \in HistAddresses |-> NO_HISTORY]
    /\ receiving_addresses = [i \in 1 .. GapLimit |-> derive_address(0, i - 1)]
    /\ change_addresses = [i \in 1 .. gap_limit_for_change |-> derive_address(1, i - 1)]
    /\ synced = TRUE

InitSync == InitSyncVars /\ IdleSignVars /\ IdleFeeVars

NextSync ==
    \/ Synchronize
    \/ \E for_change \in Branches : CreateNewAddress(for_change)
    \/ \E a \in HistAddresses : ReceiveTx(a)
    \/ \E a \in HistAddresses : ConfirmTx(a)

SpecSync == InitSync /\ [][NextSync]_vars

addresses_of(for_change) == IF for_change = 1 THEN change_addresses ELSE receiving_addresses

\* C1 (as stated): after a completed synchronize(), each branch holds at least
\* its limit of addresses and none of the last `limit` addresses has any
\* on-chain history, at whatever confirmation depth.
C1_NoHistoryInGap ==
    synced =>
        \A b \in Branches :
            /\ Len(addresses_of(b)) >= limit_of(b)
            /\ \A a \in last_few_addresses(addresses_of(b), limit_of(b)) : ~has_history(a)

\* C1 (amended): after a completed synchronize(), each branch holds at least
\* its limit of addresses and none of the last `limit` addresses has history
\* with REQ_CONF or more confirmations; shallower history may remain.
C1_NoOldHistoryInGap ==
    synced =>
        \A b \in Branches :
            /\ Len(addresses_of(b)) >= limit_of(b)
            /\ \A a \in last_few_addresses(addresses_of(b), limit_of(b)) :
                   max_conf(a) < REQ_CONF

\* C1 witness: synchronize() has extended a branch past deeply confirmed history.
C1_Witness ==
    /\ synced
    /\ \E b \in Branches :
          /\ Len(addresses_of(b)) > limit_of(b)
          /\ \E a \in Range(addresses_of(b)) : max_conf(a) >= REQ_CONF

(***************************************************************************)
(* Partial-transaction co-signing (Abstract_Wallet.sign_transaction)       *)
(***************************************************************************)
\* Bounds of the model.
NumCosigners == 3      \* n of the m-of-n multisig wallet
NumRequired == 2       \* m of the m-of-n multisig wallet
NumInputs == 2         \* inputs of the transaction in circulation

\* Wallets: 0 is a single-signature (standard) wallet, 1..n are the cosigner
\* wallets of the multisig wallet (wallet i holds the private keys of keystore
\* i and the xpubs of the others), n+1 is a watching-only copy of it.
STANDARD_WALLET == 0

Cosigners == 1 .. NumCosigners

WatchingOnlyWallet == NumCosigners + 1

Wallets == 0 .. WatchingOnlyWallet

\* Public keys are named after the keystore that holds their private key.
Pubkeys == 0 .. NumCosigners

\* Two parties hold a copy of the transaction each.
Views == {"a", "b"}

Locktimes == {1, 2}

NoSig == <<>>

\* isinstance(self, Multisig_Wallet)
is_multisig(w) == w # STANDARD_WALLET

is_watching_only(w) == w = WatchingOnlyWallet

\* is_mine(address): "std" addresses belong to the standard wallet, "ms"
\* addresses to the multisig wallet (all of its copies).
is_mine(w, owner) == IF is_multisig(w) THEN owner = "ms" ELSE owner = "std"

\* The public keys of an address (get_public_keys_with_deriv_info).
pubkeys_of(owner) == IF owner = "ms" THEN Cosigners ELSE {STANDARD_WALLET}

\* The signature a private key makes for an input of a transaction: ECDSA
\* signing is deterministic, so it is a function of the key and the sighash,
\* and the sighash commits to the un-keyed parts of the transaction.
signature(key, tx, i) == <<key, tx.locktime, i>>

\* The public keys that have signed an input, read from its partial
\* signatures or, for a finalized input, from its script.
sig_set(txin) ==
    {txin.part_sigs[k] : k \in {j \in Pubkeys : txin.part_sigs[j] # NoSig}}
        \cup Range(txin.script_sig)

num_sigs(txin) == Cardinality(sig_set(txin))

\* PartialTxInput.is_complete: at least num_sig signatures; an input no wallet
\* has described yet (num_sig unknown, 0) is incomplete.
txin_is_complete(txin) == txin.num_sig > 0 /\ num_sigs(txin) >= txin.num_sig

tx_is_complete(tx) == \A i \in DOMAIN tx.inputs : txin_is_complete(tx.inputs[i])

\* The un-keyed parts of a transaction: prevouts, outputs, locktime, version.
unsigned_part(tx) ==
    [locktime |-> tx.locktime, prevouts |-> [i \in DOMAIN tx.inputs |-> tx.inputs[i].owner]]

add_input_info_not_is_mine(w, txin) ==
    [txin EXCEPT !.num_sig = IF is_multisig(w) THEN NumRequired ELSE 1]

add_input_info_always_one(w, txin) ==
    IF ~is_mine(w, txin.owner) THEN txin ELSE [txin EXCEPT !.num_sig = 1]

\* add_input_info: nothing for an input that is not the wallet's; otherwise
\* num_sig is m for a multisig wallet and 1 for any other.
add_input_info(w, txin) ==
    IF ~is_mine(w, txin.owner)
    THEN txin
    ELSE [txin EXCEPT !.num_sig = IF is_multisig(w) THEN NumRequired ELSE 1]

\* tx.add_info_from_wallet(wallet): add_input_info for every input.
add_info_from_wallet(w, tx) ==
    [tx EXCEPT !.inputs = [i \in DOMAIN tx.inputs |-> add_input_info(w, tx.inputs[i])]]

keystore_sign_any_input(w, tx) ==
    [tx EXCEPT !.inputs =
        [i \in DOMAIN tx.inputs |->
            IF w \in Pubkeys
            THEN [tx.inputs[i] EXCEPT !.part_sigs[w] = signature(w, tx, i)]
            ELSE tx.inputs[i]]]

\* k.sign_transaction(tmp_tx, password) for the wallet's keystore that holds
\* private keys: every input of the wallet whose key set holds the keystore's
\* public key and that has no signature of it yet gets one.
keystore_sign(w, tx) ==
    [tx EXCEPT !.inputs =
        [i \in DOMAIN tx.inputs |->
            IF /\ is_mine(w, tx.inputs[i].owner)
               /\ tx.inputs[i].num_sig > 0
               /\ w \in pubkeys_of(tx.inputs[i].owner)
               /\ tx.inputs[i].part_sigs[w] = NoSig
            THEN [tx.inputs[i] EXCEPT !.part_sigs[w] = signature(w, tx, i)]
            ELSE tx.inputs[i]]]

\* Two transactions are representations of the same underlying transaction.
same_transaction(a, b) == unsigned_part(a) = unsigned_part(b)

\* txin.combine_with_other_txin: the other input's data is pulled in; where
\* both carry a value, the other's is taken (dict.update).
combine_txin(a, b) ==
    [a EXCEPT !.num_sig = IF b.num_sig # 0 THEN b.num_sig ELSE a.num_sig,
              !.part_sigs = [k \in Pubkeys |->
                                IF b.part_sigs[k] # NoSig THEN b.part_sigs[k]
                                ELSE a.part_sigs[k]]]

combine_unchecked(a, b) ==
    [a EXCEPT !.inputs = [i \in DOMAIN a.inputs |-> combine_txin(a.inputs[i], b.inputs[i])]]

\* tx.combine_with_other_psbt(other): rejected, leaving tx as it was, unless
\* both represent the same underlying transaction.
combine_with_other_psbt(a, b) ==
    IF same_transaction(a, b)
    THEN [a EXCEPT !.inputs = [i \in DOMAIN a.inputs |-> combine_txin(a.inputs[i], b.inputs[i])]]
    ELSE a

\* The temporary copy sign_transaction signs.
signed_tmp_tx(w, tx) == keystore_sign(w, add_info_from_wallet(w, tx))

sign_transaction_overwrite(w, tx) ==
    IF is_watching_only(w) \/ tx.kind # "partial"
    THEN tx
    ELSE add_info_from_wallet(w,
            keystore_sign(w, add_info_from_wallet(w,
                [tx EXCEPT !.inputs = [i \in DOMAIN tx.inputs |->
                    [tx.inputs[i] EXCEPT !.part_sigs = [k \in Pubkeys |-> NoSig]]]])))

\* sign_transaction: nothing for a watching-only wallet or a transaction that
\* is not a PartialTransaction; otherwise a deep copy is described and signed,
\* combined back into tx, and tx is described again.
sign_transaction(w, tx) ==
    IF is_watching_only(w)
    THEN tx
    ELSE IF tx.kind # "partial"
    THEN tx
    ELSE add_info_from_wallet(w, combine_with_other_psbt(tx, signed_tmp_tx(w, tx)))

\* The set s of public keys as the sequence in ascending (sorted) order.
RECURSIVE sorted_seq(_)
sorted_seq(s) ==
    IF s = {} THEN << >>
    ELSE LET least == CHOOSE x \in s : \A y \in s : x <= y
         IN  <<least>> \o sorted_seq(s \ {least})

signed_keys(txin) == {k \in Pubkeys : txin.part_sigs[k] # NoSig}

\* finalize: the signatures of an input in the order of the sorted public keys.
finalized_script(txin) ==
    IF txin.script_sig # << >> THEN txin.script_sig
    ELSE LET ks == sorted_seq(signed_keys(txin))
         IN  [j \in DOMAIN ks |-> txin.part_sigs[ks[j]]]

\* serialize: a complete transaction in network format (scripts with the
\* signatures in them), an incomplete one as a partial transaction whose
\* per-input records are key-sorted (partial signatures, script with m).
serialize(tx) ==
    IF tx_is_complete(tx)
    THEN [format |-> "raw", locktime |-> tx.locktime,
          inputs |-> [i \in DOMAIN tx.inputs |->
                        [prevout |-> tx.inputs[i].owner,
                         script |-> finalized_script(tx.inputs[i]),
                         m |-> tx.inputs[i].num_sig]]]
    ELSE [format |-> "psbt", locktime |-> tx.locktime,
          inputs |-> [i \in DOMAIN tx.inputs |->
                        [prevout |-> tx.inputs[i].owner,
                         m |-> tx.inputs[i].num_sig,
                         records |-> LET ks == sorted_seq(signed_keys(tx.inputs[i]))
                                     IN  [j \in DOMAIN ks |->
                                            <<ks[j], tx.inputs[i].part_sigs[ks[j]]>>]]]]

\* A parser that keeps only the un-keyed parts of a partial transaction.
tx_from_any_without_signatures(blob) ==
    [kind |-> IF blob.format = "raw" THEN "final" ELSE "partial", locktime |-> blob.locktime,
     inputs |-> [i \in DOMAIN blob.inputs |->
                   [owner |-> blob.inputs[i].prevout,
                    num_sig |-> blob.inputs[i].m,
                    part_sigs |-> [k \in Pubkeys |-> NoSig],
                    script_sig |-> << >>]]]

\* tx_from_any: a raw transaction parses to a Transaction (not partial), a
\* partial transaction to a PartialTransaction.
tx_from_any(blob) ==
    IF blob.format = "raw"
    THEN [kind |-> "final", locktime |-> blob.locktime,
          inputs |-> [i \in DOMAIN blob.inputs |->
                        [owner |-> blob.inputs[i].prevout,
                         num_sig |-> blob.inputs[i].m,
                         part_sigs |-> [k \in Pubkeys |-> NoSig],
                         script_sig |-> blob.inputs[i].script]]]
    ELSE [kind |-> "partial", locktime |-> blob.locktime,
          inputs |-> [i \in DOMAIN blob.inputs |->
                        [owner |-> blob.inputs[i].prevout,
                         num_sig |-> blob.inputs[i].m,
                         part_sigs |-> [k \in Pubkeys |->
                              IF \E j \in DOMAIN blob.inputs[i].records :
                                     blob.inputs[i].records[j][1] = k
                              THEN LET j == CHOOSE j \in DOMAIN blob.inputs[i].records :
                                                blob.inputs[i].records[j][1] = k
                                   IN  blob.inputs[i].records[j][2]
                              ELSE NoSig],
                         script_sig |-> << >>]]]

\* txid of a (legacy) transaction: known once it is complete, and a hash of
\* the network serialization, scripts included.
txid(tx) ==
    IF tx_is_complete(tx)
    THEN [locktime |-> tx.locktime,
          inputs |-> [i \in DOMAIN tx.inputs |->
                        <<tx.inputs[i].owner, finalized_script(tx.inputs[i])>>]]
    ELSE "None"

\* A freshly built, unsigned partial transaction.
unsigned_tx(owners, locktime) ==
    [kind |-> "partial", locktime |-> locktime,
     inputs |-> [i \in 1 .. NumInputs |->
                    [owner |-> owners[i], num_sig |-> 0,
                     part_sigs |-> [k \in Pubkeys |-> NoSig],
                     script_sig |-> << >>]]]

\* wallet.sign_transaction(tx, password) on one copy of the transaction.
SignTransaction(w, v) ==
    /\ txs' = [txs EXCEPT ![v] = sign_transaction(w, txs[v])]
    /\ signed_by' = [signed_by EXCEPT ![v] = IF is_watching_only(w) THEN @ ELSE @ \cup {w}]
    /\ last_op' = [op |-> "sign"]
    /\ UNCHANGED <<ephemeral_addr_to_addr_index, sync_vars, fee_vars>>

\* tx_from_any(tx.serialize()): a copy is moved between cosigners.
RoundTrip(v) ==
    /\ txs' = [txs EXCEPT ![v] = tx_from_any(serialize(txs[v]))]
    /\ last_op' = [op |-> "roundtrip"]
    /\ UNCHANGED <<signed_by, ephemeral_addr_to_addr_index, sync_vars, fee_vars>>

\* a.combine_with_other_psbt(b) on two copies held as partial transactions.
Combine(v, u) ==
    /\ v # u
    /\ txs[v].kind = "partial"
    /\ txs[u].kind = "partial"
    /\ txs' = [txs EXCEPT ![v] = combine_with_other_psbt(txs[v], txs[u])]
    /\ signed_by' = [signed_by EXCEPT ![v] =
                        IF same_transaction(txs[v], txs[u]) THEN @ \cup signed_by[u] ELSE @]
    /\ last_op' = [op |-> "combine", rejected |-> ~same_transaction(txs[v], txs[u])]
    /\ UNCHANGED <<ephemeral_addr_to_addr_index, sync_vars, fee_vars>>

\* Every copy starts as the unsigned transaction; the second party may hold a
\* transaction that differs in its locktime.
InitSign ==
    /\ \E owners \in [1 .. NumInputs -> {"std", "ms"}] :
       \E lt \in [Views -> Locktimes] :
            txs = [v \in Views |-> unsigned_tx(owners, lt[v])]
    /\ signed_by = [v \in Views |-> {}]
    /\ last_op = [op |-> "none"]
    /\ ephemeral_addr_to_addr_index = << >>
    /\ InitSyncVars
    /\ IdleFeeVars

NextSign ==
    \/ \E w \in Wallets, v \in Views : SignTransaction(w, v)
    \/ \E v \in Views : RoundTrip(v)
    \/ \E v, u \in Views : Combine(v, u)

SpecSign == InitSign /\ [][NextSign]_vars

\* The signature count an input of the given owner needs.
required_sigs(owner) == IF owner = "ms" THEN NumRequired ELSE 1

\* The signing wallets that were asked to sign a copy and own input i of it.
signers_of(v, i) == {w \in signed_by[v] : is_mine(w, txs[v].inputs[i].owner)}

\* The signatures and the txid a copy has if exactly the wallets asked to sign
\* it have signed, whatever the order of the calls and the round trips.
expected_sigs(v, i) == {signature(w, txs[v], i) : w \in signers_of(v, i)}

expected_txid(v) ==
    [locktime |-> txs[v].locktime,
     inputs |-> [i \in DOMAIN txs[v].inputs |->
                    <<txs[v].inputs[i].owner,
                      LET ks == sorted_seq(signers_of(v, i))
                      IN  [j \in DOMAIN ks |-> signature(ks[j], txs[v], i)]>>]]

\* C2 (as stated): whatever the order in which the cosigner wallets call
\* sign_transaction and whatever round trips lie between the calls, every
\* input carries the signatures of exactly the wallets that signed, and a
\* complete transaction has the txid that follows from them.
C2_SignaturesOfAllSigners ==
    \A v \in Views :
        /\ \A i \in DOMAIN txs[v].inputs : sig_set(txs[v].inputs[i]) = expected_sigs(v, i)
        /\ tx_is_complete(txs[v]) => txid(txs[v]) = expected_txid(v)

\* C2 (amended): the same, for the inputs that no more wallets were asked to
\* sign than the input needs signatures (at most m cosigners of an m-of-n
\* input): order and round trips do not change the result.
C2_SignaturesOfUpToMSigners ==
    \A v \in Views :
        /\ \A i \in DOMAIN txs[v].inputs :
              Cardinality(signers_of(v, i)) <= required_sigs(txs[v].inputs[i].owner)
                  => sig_set(txs[v].inputs[i]) = expected_sigs(v, i)
        /\ ( /\ tx_is_complete(txs[v])
             /\ \A i \in DOMAIN txs[v].inputs :
                   Cardinality(signers_of(v, i)) <= required_sigs(txs[v].inputs[i].owner) )
              => txid(txs[v]) = expected_txid(v)

\* C2 witness: a copy with a multisig input that exactly m cosigners signed
\* is complete and has been through a round trip (it is a final transaction).
C2_Witness ==
    \E v \in Views :
        /\ txs[v].kind = "final"
        /\ \E i \in DOMAIN txs[v].inputs :
              /\ txs[v].inputs[i].owner = "ms"
              /\ Cardinality(signers_of(v, i)) = NumRequired

\* C3: a transaction is complete iff every input carries at least its
\* required signature count (m for an input of the m-of-n wallet, 1
\* otherwise, as add_input_info sets it); an input that fewer than m
\* cosigners signed is incomplete and it is complete once m have signed.
C3_CompleteIffRequiredSignatures ==
    \A v \in Views :
        /\ tx_is_complete(txs[v]) <=>
              \A i \in DOMAIN txs[v].inputs :
                  num_sigs(txs[v].inputs[i]) >= required_sigs(txs[v].inputs[i].owner)
        /\ \A i \in DOMAIN txs[v].inputs :
              /\ txs[v].inputs[i].num_sig \in {0, required_sigs(txs[v].inputs[i].owner)}
              /\ signers_of(v, i) # {} =>
                    txs[v].inputs[i].num_sig = required_sigs(txs[v].inputs[i].owner)
              /\ txin_is_complete(txs[v].inputs[i]) <=>
                    Cardinality(signers_of(v, i)) >= required_sigs(txs[v].inputs[i].owner)

\* C3 witness: one copy of a transaction with a multisig input is complete
\* with m signers while the other copy, with m-1 signers, is incomplete.
C3_Witness ==
    /\ tx_is_complete(txs["a"])
    /\ ~tx_is_complete(txs["b"])
    /\ \E i \in DOMAIN txs["a"].inputs :
          /\ txs["a"].inputs[i].owner = "ms"
          /\ Cardinality(signers_of("a", i)) = NumRequired
          /\ Cardinality(signers_of("b", i)) = NumRequired - 1
          /\ num_sigs(txs["b"].inputs[i]) = NumRequired - 1

\* The laws of combine for two partial views of one transaction.
combine_laws(a, b) ==
    /\ combine_with_other_psbt(a, b) = combine_with_other_psbt(b, a)
    /\ combine_with_other_psbt(combine_with_other_psbt(a, b), b) = combine_with_other_psbt(a, b)
    /\ \A i \in DOMAIN a.inputs :
          sig_set(combine_with_other_psbt(a, b).inputs[i])
              = sig_set(a.inputs[i]) \cup sig_set(b.inputs[i])

\* C4: combining two partial views of the same transaction is commutative
\* and idempotent and yields the union of the signatures, for the copies the
\* parties hold and for the combine step of sign_transaction (the caller's
\* transaction with the signed temporary copy).
C4_CombineCommutativeIdempotent ==
    /\ \A v, u \in Views :
          ( /\ txs[v].kind = "partial"
            /\ txs[u].kind = "partial"
            /\ same_transaction(txs[v], txs[u]) ) => combine_laws(txs[v], txs[u])
    /\ \A v \in Views, w \in Wallets :
          txs[v].kind = "partial" => combine_laws(txs[v], signed_tmp_tx(w, txs[v]))

\* C4 witness: the two copies are partial views of one transaction that
\* carry different signatures, and one has been combined into the other.
C4_Witness ==
    /\ last_op.op = "combine"
    /\ ~last_op.rejected
    /\ same_transaction(txs["a"], txs["b"])
    /\ \E i \in DOMAIN txs["a"].inputs :
          /\ sig_set(txs["a"].inputs[i]) # sig_set(txs["b"].inputs[i])
          /\ sig_set(txs["a"].inputs[i]) # {}
          /\ sig_set(txs["b"].inputs[i]) # {}

\* Every signature a copy carries is a signature of that copy's transaction.
no_hybrid(tx) ==
    \A i \in DOMAIN tx.inputs :
        \A sig \in sig_set(tx.inputs[i]) : sig[2] = tx.locktime /\ sig[3] = i

MaxOutputs == 2        \* outputs of the wallet's unconfirmed transaction

\* Fee rates are Decimals in sat/vbyte; here they are counted in hundredths
\* of a satoshi per vbyte.
RATE_UNIT == 100

\* quantize_feerate keeps one decimal place: multiples of a tenth sat/vbyte.
FEERATE_QUANTUM == 10

\* dust_threshold(network), in satoshis.
DUST_THRESHOLD == 546

\* Transaction.estimated_size: a fixed part and a part per input and output.
TX_BASE_SIZE == 10

TXIN_SIZE == 148

TXOUT_SIZE == 34

\* config.fee_per_kb() as a rate in hundredths of a satoshi per vbyte.
CONFIG_FEERATE == 100

\* The value '!' of an output that requests the entire balance.
SPEND_MAX == 0 - 1

\* An address outside the wallet (not derived from its keystore).
foreign_address(n) == <<2, n>>

\* is_mine(address): get_address_index(address) is known to the wallet.
address_is_mine(address) ==
    address \in Range(receiving_addresses) \cup Range(change_addresses)

\* is_change(address): is_mine and get_address_index(address)[0] == 1.
is_change(address) == address_is_mine(address) /\ address[1] = 1

\* is_used(address): the address has history in the wallet.
is_used(address) ==
    \/ \E c \in utxos \cup wallet_tx.inputs : c.address = address
    \/ \E i \in DOMAIN wallet_tx.outputs : wallet_tx.outputs[i].address = address

\* Decimal.quantize(one decimal place, ROUND_HALF_DOWN).
quantize_feerate(rate) ==
    ((rate + (FEERATE_QUANTUM \div 2) - 1) \div FEERATE_QUANTUM) * FEERATE_QUANTUM

\* round(n / d) of Python for a non-negative Decimal: ties go to the even integer.
round_half_even(n, d) ==
    LET q == n \div d
        r == n % d
    IN  IF 2 * r < d THEN q
        ELSE IF 2 * r > d THEN q + 1
        ELSE IF q % 2 = 0 THEN q ELSE q + 1

\* config.estimate_fee_for_feerate(fee_per_kb, size): round(quantized rate * size).
estimate_fee_for_feerate(rate, size) ==
    round_half_even(quantize_feerate(rate) * size, RATE_UNIT)

\* The relay fee rate of the network (relayfee(self.network)): 1 sat/vbyte.
RELAY_FEERATE == 100

batch_lower_bound_without_base_fee(base_tx_fee, size, is_local) ==
    IF is_local THEN 0 ELSE round_half_even(size * RELAY_FEERATE, RATE_UNIT)

\* lower_bound = base_tx_fee + round(size * relayfeerate), and 0 when the
\* base transaction is local; size is the size of the whole new transaction.
batch_lower_bound(base_tx_fee, size, is_local) ==
    IF is_local THEN 0 ELSE base_tx_fee + round_half_even(size * RELAY_FEERATE, RATE_UNIT)

\* A fee estimator (a function of the size) is either a fixed fee or the
\* estimate for a fee rate; when batching onto a base transaction it is
\* max(lower_bound, original_fee_estimator(size)).
estimate(fee_estimator, size) ==
    LET original == IF fee_estimator.fixed THEN fee_estimator.value
                    ELSE estimate_fee_for_feerate(fee_estimator.value, size)
    IN  IF fee_estimator.batch
        THEN Max(batch_lower_bound(fee_estimator.base_tx_fee, size, fee_estimator.is_local),
                 original)
        ELSE original

RECURSIVE sum_coins(_)
sum_coins(coins) ==
    IF coins = {} THEN 0
    ELSE LET c == CHOOSE c \in coins : TRUE
         IN  c.value + sum_coins(coins \ {c})

RECURSIVE sum_outputs(_)
sum_outputs(outputs) ==
    IF outputs = << >> THEN 0
    ELSE Head(outputs).value + sum_outputs(Tail(outputs))

\* tx.input_value(), tx.output_value(), tx.get_fee(), tx.estimated_size()
input_value(tx) == sum_coins(tx.inputs)

output_value(tx) == sum_outputs(tx.outputs)

get_fee(tx) == input_value(tx) - output_value(tx)

estimated_size(tx) ==
    TX_BASE_SIZE + TXIN_SIZE * Cardinality(tx.inputs) + TXOUT_SIZE * Len(tx.outputs)

\* PartialTransaction.from_io(inputs, outputs)
from_io(inputs, outputs) == [inputs |-> inputs, outputs |-> outputs]

\* tx.set_rbf(rbf): the nSequence of every input becomes 0xffffffff - 2 to
\* signal replace-by-fee, 0xffffffff - 1 not to.  An nSequence is written as
\* its distance below 0xffffffff.
set_rbf(tx, rbf) ==
    [inputs |-> tx.inputs, outputs |-> tx.outputs,
     nsequence_below_max |-> IF rbf THEN 2 ELSE 1]

\* tx.is_final(): no input has an nSequence below 0xffffffff - 1.
is_final(tx) == ~(tx.nsequence_below_max > 1)

TxOutput(address, value) == [address |-> address, value |-> value]

\* The addresses of the outputs that satisfy a test, as a list.
is_mine_output(o) == address_is_mine(o.address)

is_change_output(o) == is_change(o.address)

not_is_mine_output(o) == ~address_is_mine(o.address)

not_is_change_output(o) == ~is_change(o.address)

not_used(address) == ~is_used(address)

\* calc_unused_change_addresses(): the list it returns and caches, the cached
\* list of before without the addresses that are used now.
calc_unused_change_addresses == SelectSeq(unused_change_addresses, not_used)

\* get_change_addresses_for_new_transaction(preferred_change_addr) with
\* use_change set and multiple_change unset (the defaults): the preferred
\* addresses if given, else the unused change addresses; at most one is
\* returned.  (The branch that reuses a random recent change address needs all
\* gap_limit_for_change change addresses to be used.)
get_change_addresses_for_new_transaction(preferred_change_addr) ==
    LET change_addrs == IF preferred_change_addr # << >>
                        THEN preferred_change_addr
                        ELSE calc_unused_change_addresses
    IN  SubSeq(change_addrs, 1, IF Len(change_addrs) < 1 THEN Len(change_addrs) ELSE 1)

\* get_unused_address(): the first receiving address without history, if any.
get_unused_addresses == SelectSeq(receiving_addresses, not_used)

\* utxo.prevout.to_str()
prevout_str(utxo) == <<utxo.prevout_txid, utxo.prevout_n>>

\* is_frozen_coin(utxo)
is_frozen_coin(utxo) == prevout_str(utxo) \in frozen_coins

\* get_spendable_coins with the frozen coins left in.
get_spendable_coins_unfiltered == utxos

\* get_spendable_coins(None): the unspent coins (all mature) that are not on a
\* frozen address and are not frozen themselves.
get_spendable_coins ==
    {utxo \in {u \in utxos : u.address \notin frozen_addresses} : ~is_frozen_coin(utxo)}

\* coin_chooser.make_tx: the transactions the coin chooser may return.  It adds
\* some of the candidate coins to the given inputs so that the inputs cover
\* the outputs and the estimated fee, and pays the surplus over the fee to the
\* change address unless that is below the dust threshold, in which case it is
\* left to the fee.  No transaction stands for NotEnoughFunds.
make_tx(coins, inputs, outputs, change_addrs, fee_estimator) ==
    LET base(S) == from_io(inputs \cup S, outputs)
        with_change(S, v) == from_io(inputs \cup S, Append(outputs, TxOutput(change_addrs[1], v)))
        sufficient_funds(S) ==
            input_value(base(S)) >= output_value(base(S)) + estimate(fee_estimator, estimated_size(base(S)))
        change(S) == input_value(base(S)) - output_value(base(S))
                        - estimate(fee_estimator, estimated_size(with_change(S, 0)))
    IN  { IF change_addrs # << >> /\ change(S) >= DUST_THRESHOLD
          THEN with_change(S, change(S))
          ELSE base(S) : S \in {T \in SUBSET coins : sufficient_funds(T)} }

\* The fee estimator of the builder: for a numeric fee argument the constant
\* function, for None config.estimate_fee (the configured fee rate).
fee_estimator_of(fee) ==
    IF fee.given THEN [fixed |-> TRUE, value |-> fee.value, batch |-> FALSE]
    ELSE [fixed |-> FALSE, value |-> CONFIG_FEERATE, batch |-> FALSE]

\* The indices of the outputs that request the entire balance.
spend_max_indices(outputs) == {i \in DOMAIN outputs : outputs[i].value = SPEND_MAX}

spend_max_amount_ignoring_outputs(sendable, others, fee) == sendable - fee

\* amount = sendable - tx.output_value() - fee
spend_max_amount(sendable, others, fee) == sendable - others - fee

coins_unfiltered(coins, tx) == coins

\* coins = [c for c in coins if c.prevout.txid.hex() != tx.txid()]
coins_not_from(coins, tx) == {c \in coins : c.prevout_txid # tx.txid}

\* outputs[i].is_spent: the wallet knows a transaction spending output n of tx
\* (db.get_spent_outpoint) exactly when the output is no longer an unspent coin.
get_spent_outpoint(tx, n) ==
    ~\E c \in utxos : c.prevout_txid = tx.txid /\ c.prevout_n = n

\* The history item of a transaction of the wallet that is not mined: its
\* height, the wallet's balance change (own outputs less own inputs), whether
\* the wallet has spent one of its own outputs, whether all inputs are the
\* wallet's, and whether it is final.
hist_item(tx) ==
    LET own_inputs == {c \in tx.inputs : address_is_mine(c.address)}
    IN  [txid |-> tx.txid, conf |-> 0, height |-> tx.height,
         delta |-> sum_outputs(SelectSeq(tx.outputs, is_mine_output)) - sum_coins(own_inputs),
         in_db |-> TRUE,
         own_output_spent |->
             \E i \in DOMAIN tx.outputs :
                 address_is_mine(tx.outputs[i].address) /\ get_spent_outpoint(tx, i),
         all_inputs_mine |-> own_inputs = tx.inputs,
         final |-> tx.final]

RECURSIVE base_tx_loop_spent_outputs_allowed(_, _)
base_tx_loop_spent_outputs_allowed(hist, candidate) ==
    IF hist = << >> THEN candidate
    ELSE LET hist_item_ == Head(hist)
             continue == base_tx_loop_spent_outputs_allowed(Tail(hist), candidate)
         IN  IF hist_item_.conf > 0 THEN continue
             ELSE IF hist_item_.height \notin {"unconfirmed", "unconf_parent", "local"} THEN continue
             ELSE IF hist_item_.delta >= 0 THEN continue
             ELSE IF ~hist_item_.in_db THEN continue
             ELSE IF ~hist_item_.all_inputs_mine THEN continue
             ELSE IF hist_item_.height = "local"
             THEN base_tx_loop_spent_outputs_allowed(Tail(hist), [found |-> TRUE, item |-> hist_item_])
             ELSE IF hist_item_.final THEN continue
             ELSE [found |-> TRUE, item |-> hist_item_]

\* The loop of get_unconfirmed_base_tx_for_batching over the history items
\* left, with the candidate found so far: an item is passed over if it is
\* mined, of an unknown unconfirmed kind, not outgoing, not in the database,
\* has an own output that is spent, or an input that is not the wallet's; a
\* local item becomes the candidate; one in the mempool is returned unless it
\* is final.
RECURSIVE base_tx_loop(_, _)
base_tx_loop(hist, candidate) ==
    IF hist = << >> THEN candidate
    ELSE LET hist_item_ == Head(hist)
             continue == base_tx_loop(Tail(hist), candidate)
         IN  IF hist_item_.conf > 0 THEN continue
             ELSE IF hist_item_.height \notin {"unconfirmed", "unconf_parent", "local"} THEN continue
             ELSE IF hist_item_.delta >= 0 THEN continue
             ELSE IF ~hist_item_.in_db THEN continue
             ELSE IF hist_item_.own_output_spent THEN continue
             ELSE IF ~hist_item_.all_inputs_mine THEN continue
             ELSE IF hist_item_.height = "local"
             THEN base_tx_loop(Tail(hist), [found |-> TRUE, item |-> hist_item_])
             ELSE IF hist_item_.final THEN continue
             ELSE [found |-> TRUE, item |-> hist_item_]

\* get_unconfirmed_base_tx_for_batching(): the history item of the
\* transaction it returns, if any.
get_unconfirmed_base_tx_for_batching == base_tx_loop(history, [found |-> FALSE])

\* db.get_transaction(tx_hash) for the transaction the fee-control model holds.
get_transaction(tx_hash) == wallet_tx

signatures_ignored(has_signatures) == FALSE

\* any([c.already_has_some_signatures() for c in coins])
some_inputs_signed(has_signatures) == has_signatures

more_than_two_spend_max(outputs) ==
    Cardinality({i \in DOMAIN outputs : outputs[i].value = SPEND_MAX}) > 2

\* The loop over the outputs meets a second '!'.
multiple_spend_max(outputs) == Cardinality(spend_max_indices(outputs)) > 1

\* make_unsigned_transaction(coins, outputs, fee): the possible outcomes.
\* has_signatures says whether some supplied coin already carries signatures;
\* annotated is the set of coins add_input_info has been applied to when the
\* call ends, batched whether the transaction was merged with a base one.
make_unsigned_transaction(coins, has_signatures, outputs, fee) ==
    IF some_inputs_signed(has_signatures)
    THEN {[status |-> "Exception", annotated |-> {}]}
    ELSE IF multiple_spend_max(outputs)
    THEN {[status |-> "MultipleSpendMaxTxOutputs", annotated |-> {}]}
    ELSE IF spend_max_indices(outputs) = {}
    THEN \* the coin chooser selects the coins to spend
         LET base_item == get_unconfirmed_base_tx_for_batching
             base_tx == IF base_item.found
                        THEN [found |-> TRUE, tx |-> get_transaction(base_item.item.txid)]
                        ELSE [found |-> FALSE]
             batch == batch_rbf /\ base_tx.found
             candidates == IF batch THEN coins_not_from(coins, base_tx.tx) ELSE coins
             fee_estimator ==
                 IF batch
                 THEN [fixed |-> fee_estimator_of(fee).fixed,
                       value |-> fee_estimator_of(fee).value,
                       batch |-> TRUE,
                       base_tx_fee |-> get_fee(base_tx.tx),
                       is_local |-> base_tx.tx.height = "local"]
                 ELSE fee_estimator_of(fee)
             txi == IF batch THEN base_tx.tx.inputs ELSE {}
             txo == IF batch THEN SelectSeq(base_tx.tx.outputs, not_is_change_output) ELSE << >>
             old_change == IF batch THEN SelectSeq(base_tx.tx.outputs, is_change_output)
                           ELSE << >>
             old_change_addrs == [i \in DOMAIN old_change |-> old_change[i].address]
             change_addrs == get_change_addresses_for_new_transaction(old_change_addrs)
             chosen == make_tx(candidates, txi, outputs \o txo, change_addrs, fee_estimator)
         IN  IF chosen = {}
             THEN {[status |-> "NotEnoughFunds", annotated |-> coins]}
             ELSE {[status |-> "ok", annotated |-> coins, batched |-> batch, tx |-> t] :
                     t \in chosen}
    ELSE \* "spend max" branch
         LET i_max == CHOOSE i \in spend_max_indices(outputs) : TRUE
             sendable == sum_coins(coins)
             zeroed == [outputs EXCEPT ![i_max].value = 0]
             tx0 == from_io(coins, zeroed)
             the_fee == estimate(fee_estimator_of(fee), estimated_size(tx0))
             amount == spend_max_amount(sendable, output_value(tx0), the_fee)
         IN  IF amount < 0
             THEN {[status |-> "NotEnoughFunds", annotated |-> coins]}
             ELSE {[status |-> "ok", annotated |-> coins, batched |-> FALSE,
                    tx |-> from_io(coins, [outputs EXCEPT ![i_max].value = amount])]}

non_change_outputs_kept(old_outputs) == SelectSeq(old_outputs, not_is_change_output)

\* "which outputs to keep?": with a change output among the old outputs, the
\* outputs that are not change; without one, the outputs that are not the
\* wallet's (the wallet's own outputs then stand in for the change), and all
\* of them if none is foreign.
fixed_outputs(old_outputs) ==
    LET old_change == SelectSeq(old_outputs, is_change_output)
        old_not_is_mine == SelectSeq(old_outputs, not_is_mine_output)
    IN  IF old_change # << >>
        THEN SelectSeq(old_outputs, not_is_change_output)
        ELSE IF old_not_is_mine # << >> THEN old_not_is_mine ELSE old_outputs

never_bails_out(old_outputs) == FALSE

\* "all outputs are is_mine and none of them are change": tested when the old
\* transaction has no change output.
all_outputs_non_change_is_mine(old_outputs) ==
    \A i \in DOMAIN old_outputs : is_mine_output(old_outputs[i])

\* _bump_fee_through_coinchooser: the transactions it may return; none stands
\* for CannotBumpFee.
bump_fee_through_coinchooser(tx, new_fee_rate, coins) ==
    LET old_outputs == tx.outputs
        old_change == SelectSeq(old_outputs, is_change_output)
        old_change_addrs == [i \in DOMAIN old_change |-> old_change[i].address]
        change_addrs == get_change_addresses_for_new_transaction(old_change_addrs)
        candidates == coins_not_from(IF coins.given THEN coins.coins ELSE get_spendable_coins, tx)
    IN  IF old_change_addrs = << >> /\ all_outputs_non_change_is_mine(old_outputs)
        THEN {}
        ELSE IF fixed_outputs(old_outputs) = << >>
        THEN {}
        ELSE make_tx(candidates, tx.inputs, fixed_outputs(old_outputs), change_addrs,
                     [fixed |-> FALSE, value |-> new_fee_rate, batch |-> FALSE])

RECURSIVE sorted_by_value_descending(_)
sorted_by_value_descending(s) ==
    IF s = << >> THEN << >>
    ELSE LET i == CHOOSE i \in DOMAIN s :
                    /\ \A j \in DOMAIN s : s[i].value >= s[j].value
                    /\ \A j \in DOMAIN s : j < i => s[j].value < s[i].value
         IN  <<s[i]>> \o sorted_by_value_descending(SubSeq(s, 1, i - 1) \o SubSeq(s, i + 1, Len(s)))

\* sorted(s, key=lambda o: o.value): a stable sort by value.
RECURSIVE sorted_by_value(_)
sorted_by_value(s) ==
    IF s = << >> THEN << >>
    ELSE LET i == CHOOSE i \in DOMAIN s :
                    /\ \A j \in DOMAIN s : s[i].value <= s[j].value
                    /\ \A j \in DOMAIN s : j < i => s[j].value > s[i].value
         IN  <<s[i]>> \o sorted_by_value(SubSeq(s, 1, i - 1) \o SubSeq(s, i + 1, Len(s)))

\* outputs.index(o)
index_of(outputs, o) == CHOOSE i \in DOMAIN outputs :
                            outputs[i] = o /\ \A j \in DOMAIN outputs : j < i => outputs[j] # o

\* The loop over the candidate outputs s.  target_fee and delta are computed
\* anew from tx in every pass, and tx keeps all its outputs, so every pass
\* starts from the same delta; the delta left after the loop is 0 after a
\* break and delta - o.value of the last output otherwise.
RECURSIVE decrease_outputs(_, _, _)
decrease_outputs(outputs, s, delta) ==
    LET o == Head(s)
        i == index_of(outputs, o)
    IN  IF o.value - delta >= DUST_THRESHOLD
        THEN [outputs |-> [outputs EXCEPT ![i].value = o.value - delta], delta |-> 0]
        ELSE LET rest == SubSeq(outputs, 1, i - 1) \o SubSeq(outputs, i + 1, Len(outputs))
             IN  IF Tail(s) = << >>
                 THEN [outputs |-> rest, delta |-> delta - o.value]
                 ELSE decrease_outputs(rest, Tail(s), delta)

\* _bump_fee_through_decreasing_outputs: the transaction it returns, or
\* CannotBumpFee.
bump_fee_through_decreasing_outputs(tx, new_fee_rate) ==
    LET own == SelectSeq(tx.outputs, is_mine_output)
        s == IF own # << >> THEN own ELSE tx.outputs
        target_fee == round_half_even(estimated_size(tx) * new_fee_rate, RATE_UNIT)
        delta == target_fee - get_fee(tx)
        after == decrease_outputs(tx.outputs, sorted_by_value(s), delta)
    IN  IF s = << >>
        THEN [status |-> "CannotBumpFee"]
        ELSE IF after.delta > 0
        THEN [status |-> "CannotBumpFee"]
        ELSE [status |-> "ok", tx |-> from_io(tx.inputs, after.outputs)]

fee_rate_below_old(new_fee_rate, old_fee, old_tx_size) ==
    new_fee_rate * old_tx_size < old_fee * RATE_UNIT

\* new_fee_rate <= old_fee_rate, with old_fee_rate = old_fee / old_tx_size
fee_rate_not_higher(new_fee_rate, old_fee, old_tx_size) ==
    new_fee_rate * old_tx_size <= old_fee * RATE_UNIT

\* The postcondition bump_fee tests on the transaction a method returned:
\* actual_fee + 1 < target_min_fee raises.
fee_target_checked(tx_new, method_used, attempted, new_fee_rate) ==
    IF (get_fee(tx_new) + 1) * RATE_UNIT < new_fee_rate * estimated_size(tx_new)
    THEN [status |-> "Exception", attempted |-> attempted, method_used |-> method_used]
    ELSE [status |-> "ok", attempted |-> attempted, method_used |-> method_used, tx |-> tx_new]

\* bump_fee from the point where new_fee_rate has been quantized.
bump_fee_at_rate(tx, new_fee_rate, coins) ==
    IF ~tx_fee_known
    THEN {[status |-> "CannotBumpFee", attempted |-> {}, method_used |-> 0]}
    ELSE IF fee_rate_not_higher(new_fee_rate, get_fee(tx), estimated_size(tx))
    THEN {[status |-> "CannotBumpFee", attempted |-> {}, method_used |-> 0]}
    ELSE LET method1 == bump_fee_through_coinchooser(tx, new_fee_rate, coins)
             method2 == bump_fee_through_decreasing_outputs(tx, new_fee_rate)
         IN  IF method1 # {}
             THEN {fee_target_checked(t, 1, {1}, new_fee_rate) : t \in method1}
             ELSE IF method2.status = "ok"
             THEN {fee_target_checked(method2.tx, 2, {1, 2}, new_fee_rate)}
             ELSE {[status |-> "CannotBumpFee", attempted |-> {1, 2}, method_used |-> 0]}

bump_fee_whole_rate(tx, new_fee_rate, coins) ==
    IF tx.final
    THEN {[status |-> "CannotBumpFee", attempted |-> {}, method_used |-> 0]}
    ELSE bump_fee_at_rate(tx, (new_fee_rate \div RATE_UNIT) * RATE_UNIT, coins)

\* bump_fee(tx, new_fee_rate, coins): the possible outcomes.
bump_fee(tx, new_fee_rate, coins) ==
    IF tx.final
    THEN {[status |-> "CannotBumpFee", attempted |-> {}, method_used |-> 0]}
    ELSE bump_fee_at_rate(tx, quantize_feerate(new_fee_rate), coins)

cpfp_last_own_output(tx, fee) ==
    LET own == {i \in DOMAIN tx.outputs : address_is_mine(tx.outputs[i].address)}
        i == CHOOSE i \in own : \A j \in own : i >= j
        items == {c \in utxos : c.prevout_txid = tx.txid /\ c.prevout_n = i}
        item == CHOOSE c \in items : TRUE
        out_address == IF get_unused_addresses # << >> THEN get_unused_addresses[1]
                       ELSE tx.outputs[i].address
    IN  IF own = {} \/ items = {} THEN [status |-> "None"]
        ELSE [status |-> "ok",
              tx |-> from_io({item}, <<TxOutput(out_address, tx.outputs[i].value - fee)>>)]

cpfp_fee_not_deducted(tx, fee) ==
    LET own == {i \in DOMAIN tx.outputs : address_is_mine(tx.outputs[i].address)}
        i == CHOOSE i \in own : \A j \in own : i <= j
        items == {c \in utxos : c.prevout_txid = tx.txid /\ c.prevout_n = i}
        item == CHOOSE c \in items : TRUE
    IN  IF own = {} \/ items = {} THEN [status |-> "None"]
        ELSE [status |-> "ok",
              tx |-> from_io({item}, <<TxOutput(tx.outputs[i].address, tx.outputs[i].value)>>)]

\* cpfp(tx, fee): the first is_mine output of tx is spent to an unused
\* receiving address (or to the same address); None without such an output
\* or when the wallet has no coin for it.
cpfp(tx, fee) ==
    LET own == {i \in DOMAIN tx.outputs : address_is_mine(tx.outputs[i].address)}
        i == CHOOSE i \in own : \A j \in own : i <= j
        address == tx.outputs[i].address
        value == tx.outputs[i].value
        items == {c \in utxos : c.prevout_txid = tx.txid /\ c.prevout_n = i}
        item == CHOOSE c \in items : TRUE
        out_address == IF get_unused_addresses # << >> THEN get_unused_addresses[1] ELSE address
    IN  IF own = {} THEN [status |-> "None"]
        ELSE IF items = {} THEN [status |-> "None"]
        ELSE [status |-> "ok", tx |-> from_io({item}, <<TxOutput(out_address, value - fee)>>)]

\* The address of a private key to sweep (pubkey_to_address).
key_address(key) == foreign_address(key + 1)

\* network.listunspent_for_scripthash: the unspent outputs the server lists
\* for the address of a key, in the order it lists them.
listunspent_for_scripthash(key) ==
    IF key = 1
    THEN <<[prevout_txid |-> "swept1", prevout_n |-> 1, value |-> 30000,
            address |-> key_address(1)],
           [prevout_txid |-> "swept2", prevout_n |-> 1, value |-> 700,
            address |-> key_address(1)]>>
    ELSE IF key = 2
    THEN <<[prevout_txid |-> "swept3", prevout_n |-> 1, value |-> 700,
            address |-> key_address(2)]>>
    ELSE << >>

RECURSIVE sweep_preparations_uncapped(_, _)
sweep_preparations_uncapped(privkeys, imax) ==
    IF privkeys = << >> THEN [inputs |-> << >>, keypairs |-> {}]
    ELSE LET before == sweep_preparations_uncapped(SubSeq(privkeys, 1, Len(privkeys) - 1), imax)
             key == privkeys[Len(privkeys)]
         IN  [inputs |-> before.inputs \o listunspent_for_scripthash(key),
              keypairs |-> before.keypairs \cup {key}]

\* sweep_preparations(privkeys, network, imax): for each key in turn, the
\* unspent outputs of its address are appended to the inputs while there are
\* fewer than imax of them, and the key is added to the key pairs.
RECURSIVE sweep_preparations(_, _)
sweep_preparations(privkeys, imax) ==
    IF privkeys = << >> THEN [inputs |-> << >>, keypairs |-> {}]
    ELSE LET before == sweep_preparations(SubSeq(privkeys, 1, Len(privkeys) - 1), imax)
             key == privkeys[Len(privkeys)]
             u == listunspent_for_scripthash(key)
             room == IF imax > Len(before.inputs) THEN imax - Len(before.inputs) ELSE 0
         IN  [inputs |-> before.inputs \o SubSeq(u, 1, IF Len(u) < room THEN Len(u) ELSE room),
              keypairs |-> before.keypairs \cup {key}]

\* tx.sign(keypairs): the inputs that get their signature, those whose public
\* key is among the key pairs.
sign_with_keypairs(inputs, keypairs) ==
    {c \in inputs : \E key \in keypairs : c.address = key_address(key)}

\* sweep(privkeys, to_address, fee, imax): the signed transaction, and which
\* of its inputs are signed, or an exception.
sweep(privkeys, to_address, fee, imax) ==
    LET prepared == sweep_preparations(privkeys, imax)
        inputs == Range(prepared.inputs)
        total == sum_coins(inputs)
        the_fee == estimate(fee_estimator_of(fee), estimated_size(from_io(inputs, <<TxOutput(to_address, total)>>)))
    IN  IF inputs = {} THEN [status |-> "Exception"]
        ELSE IF total - the_fee < 0 THEN [status |-> "Exception"]
        ELSE IF total - the_fee < DUST_THRESHOLD THEN [status |-> "Exception"]
        ELSE [status |-> "ok",
              tx |-> set_rbf(from_io(inputs, <<TxOutput(to_address, total - the_fee)>>), FALSE),
              signed |-> sign_with_keypairs(inputs, prepared.keypairs)]

\* get_tx_info(tx) for the wallet's own complete transaction, which is in the
\* wallet's database, unconfirmed or local, with a network present: the
\* fields of TxWalletDetails.  All inputs are the wallet's, so the wallet
\* delta is the own outputs less the inputs and the fee is known.
get_tx_info(tx) ==
    LET any_input_is_mine == \E c \in tx.inputs : address_is_mine(c.address)
        is_relevant == any_input_is_mine \/ \E i \in DOMAIN tx.outputs : is_mine_output(tx.outputs[i])
        v == sum_outputs(SelectSeq(tx.outputs, is_mine_output)) - input_value(tx)
        fee == get_fee(tx)
        local == tx.height = "local"
    IN  [txid |-> tx.txid,
         status |-> IF local THEN "Local" ELSE "Unconfirmed",
         label |-> "",
         can_broadcast |-> local,
         can_bump |-> any_input_is_mine /\ ~tx.final,
         can_save_as_local |-> FALSE,
         amount |-> IF is_relevant
                    THEN [known |-> TRUE, value |-> IF any_input_is_mine THEN v + fee ELSE v]
                    ELSE [known |-> FALSE, value |-> 0],
         fee |-> fee,
         tx_mined_status |-> tx.height,
         mempool_depth_bytes |-> "None",
         can_remove |-> local /\ is_relevant]

\* wallet.dscancel(tx=..., new_fee_rate=...): Abstract_Wallet and its
\* subclasses define no attribute dscancel, so the call raises.
dscancel(tx, new_fee_rate) == [status |-> "AttributeError"]

\* The inputs of the model.
InputValues == {1500, 100000}

PayValues == {600}

OldFeeRates == {200}

NewFeeRates == {200, 204, 354, 500, 2000}

Fees == {[given |-> FALSE, value |-> 0], [given |-> TRUE, value |-> 300],
         [given |-> TRUE, value |-> 7000]}

OutAddresses == {derive_address(0, 1), derive_address(1, 0), foreign_address(0)}

RequestedOutputs ==
    LET max == TxOutput(foreign_address(1), SPEND_MAX)
        pay == TxOutput(foreign_address(0), 1000)
    IN  {<<max>>, <<pay>>, <<max, pay>>, <<max, max>>}

\* The keys a caller sweeps, and the limits on the number of inputs it passes
\* (100 is the default).
SweepKeys == {<<1>>, <<2>>, <<3>>, <<1, 2>>, <<2, 1>>}

SweepLimits == {1, 100}

CoinArguments ==
    {[given |-> FALSE, coins |-> {}]} \cup {[given |-> TRUE, coins |-> S] : S \in SUBSET utxos}

\* The coins a caller passes to the builder: any of the wallet's unspent
\* coins, unsigned, or all of them taken from a transaction already signed.
BuilderCoinArguments ==
    {[coins |-> S, has_signatures |-> FALSE] : S \in SUBSET utxos}
        \cup {[coins |-> utxos, has_signatures |-> TRUE]}

MakeUnsignedTransaction(coins, has_signatures, outputs, fee) ==
    /\ \E out \in make_unsigned_transaction(coins, has_signatures, outputs, fee) :
          res' = [op |-> "make_unsigned_transaction", coins |-> coins,
                  has_signatures |-> has_signatures, outputs |-> outputs, fee |-> fee,
                  out |-> out]
    /\ UNCHANGED <<wallet_vars, sync_vars, sign_vars>>

BumpFee(new_fee_rate, coins) ==
    /\ \E out \in bump_fee(wallet_tx, new_fee_rate, coins) :
          res' = [op |-> "bump_fee", new_fee_rate |-> new_fee_rate, coins |-> coins, out |-> out]
    /\ UNCHANGED <<wallet_vars, sync_vars, sign_vars>>

\* A direct call of the output-shrinking method on the wallet's transaction.
BumpFeeThroughDecreasingOutputs(new_fee_rate) ==
    /\ res' = [op |-> "_bump_fee_through_decreasing_outputs", new_fee_rate |-> new_fee_rate,
               out |-> bump_fee_through_decreasing_outputs(wallet_tx, new_fee_rate)]
    /\ UNCHANGED <<wallet_vars, sync_vars, sign_vars>>

GetTxInfo ==
    /\ res' = [op |-> "get_tx_info", out |-> get_tx_info(wallet_tx)]
    /\ UNCHANGED <<wallet_vars, sync_vars, sign_vars>>

Dscancel(new_fee_rate) ==
    /\ res' = [op |-> "dscancel", new_fee_rate |-> new_fee_rate,
               out |-> dscancel(wallet_tx, new_fee_rate)]
    /\ UNCHANGED <<wallet_vars, sync_vars, sign_vars>>

Cpfp(fee) ==
    /\ res' = [op |-> "cpfp", fee |-> fee, out |-> cpfp(wallet_tx, fee)]
    /\ UNCHANGED <<wallet_vars, sync_vars, sign_vars>>

Sweep(privkeys, fee, imax) ==
    /\ res' = [op |-> "sweep", privkeys |-> privkeys, fee |-> fee, imax |-> imax,
               out |-> sweep(privkeys, foreign_address(1), fee, imax)]
    /\ UNCHANGED <<wallet_vars, sync_vars, sign_vars>>

\* The wallet holds an unconfirmed transaction that spends one of its coins
\* at one of the old fee rates.  Its own outputs are unspent, except the first
\* of them when spent is chosen; a second coin may be unspent (extra).
FeeScenario(values, heights, batch_flags, spent_flags, extra_flags, known_flags) ==
    /\ tx_fee_known \in known_flags
    /\ IdleThreadVars
    /\ network = NoNetwork
    /\ batch_rbf \in batch_flags
    /\ \E v \in values, n \in 1 .. MaxOutputs, final \in BOOLEAN, rate \in OldFeeRates,
          extra \in extra_flags, height \in heights, spent \in spent_flags :
       \E addrs \in [1 .. n -> OutAddresses], pay \in [1 .. n -> PayValues] :
          LET funding == [prevout_txid |-> "funding1", prevout_n |-> 1, value |-> v,
                          address |-> derive_address(0, 0)]
              shape == from_io({funding}, [i \in 1 .. n |-> TxOutput(addrs[i], pay[i])])
              fee == (rate * estimated_size(shape)) \div RATE_UNIT
              last == v - (output_value(shape) - pay[n]) - fee
              outputs == [shape.outputs EXCEPT ![n].value = last]
              own == {j \in 1 .. n : address_is_mine(outputs[j].address)}
              unspent == IF spent THEN {j \in own : \E k \in own : k < j} ELSE own
          IN  /\ last > 0
              /\ spent => own # {}
              /\ wallet_tx = [txid |-> "wallet_tx", inputs |-> {funding}, outputs |-> outputs,
                              final |-> final, height |-> height]
              /\ utxos = {[prevout_txid |-> "wallet_tx", prevout_n |-> i,
                           value |-> outputs[i].value, address |-> outputs[i].address] :
                             i \in unspent}
                         \cup (IF extra
                               THEN {[prevout_txid |-> "funding2", prevout_n |-> 1,
                                      value |-> 5000, address |-> derive_address(0, 0)]}
                               ELSE {})
              /\ history = <<hist_item(wallet_tx)>>
    /\ unused_change_addresses = SelectSeq(change_addresses, not_used)

\* Fee control on a transaction in the mempool, batching switched off.
InitFee ==
    /\ InitSyncVars
    /\ IdleSignVars
    /\ res = [op |-> "none"]
    /\ FeeScenario(InputValues, {"unconfirmed"}, {FALSE}, {FALSE}, BOOLEAN, BOOLEAN)

NextFee ==
    \/ \E arg \in BuilderCoinArguments, outputs \in RequestedOutputs, fee \in Fees :
          MakeUnsignedTransaction(arg.coins, arg.has_signatures, outputs, fee)
    \/ \E new_fee_rate \in NewFeeRates, coins \in CoinArguments : BumpFee(new_fee_rate, coins)
    \/ \E new_fee_rate \in NewFeeRates : BumpFeeThroughDecreasingOutputs(new_fee_rate)
    \/ \E fee \in {f \in Fees : f.given} : Cpfp(fee.value)
    \/ \E privkeys \in SweepKeys, fee \in Fees, imax \in SweepLimits : Sweep(privkeys, fee, imax)

SpecFee == InitFee /\ [][NextFee]_vars

\* New payments and child transactions on a wallet whose unconfirmed
\* transaction is in the mempool or local, with batching on or off, and with
\* the first of its own outputs possibly spent already.
InitBatch ==
    /\ InitSyncVars
    /\ IdleSignVars
    /\ res = [op |-> "none"]
    /\ FeeScenario({100000}, {"unconfirmed", "local"}, BOOLEAN, BOOLEAN, BOOLEAN, {TRUE})

NextBatch ==
    \/ \E arg \in BuilderCoinArguments, outputs \in RequestedOutputs, fee \in Fees :
          MakeUnsignedTransaction(arg.coins, arg.has_signatures, outputs, fee)
    \/ \E fee \in {f \in Fees : f.given} : Cpfp(fee.value)
    \/ GetTxInfo
    \/ \E new_fee_rate \in NewFeeRates : Dscancel(new_fee_rate)

SpecBatch == InitBatch /\ [][NextBatch]_vars

(***************************************************************************)
(* The choice of the base transaction among several history items          *)
(***************************************************************************)
MaxHistory == 2        \* history items of the wallet

\* The history items a wallet may hold at position n of its history: mined,
\* in the mempool, local or of a kind for the future; incoming or outgoing.
HistItems(n) ==
    {[txid |-> n, conf |-> mined_status[1], height |-> mined_status[2], delta |-> delta,
      in_db |-> in_db, own_output_spent |-> spent, all_inputs_mine |-> mine, final |-> final] :
        mined_status \in {<<1, "mined">>, <<0, "unconfirmed">>, <<0, "local">>, <<0, "future">>},
        delta \in {0 - 1000, 1000}, in_db \in BOOLEAN, spent \in BOOLEAN, mine \in BOOLEAN,
        final \in BOOLEAN}

GetUnconfirmedBaseTxForBatching ==
    /\ res' = [op |-> "get_unconfirmed_base_tx_for_batching",
               out |-> get_unconfirmed_base_tx_for_batching]
    /\ UNCHANGED <<wallet_vars, sync_vars, sign_vars>>

InitHistory ==
    /\ InitSyncVars
    /\ IdleSignVars
    /\ wallet_tx = [txid |-> "none", inputs |-> {}, outputs |-> << >>, final |-> TRUE,
                    height |-> "local"]
    /\ tx_fee_known = FALSE
    /\ IdleThreadVars
    /\ network = NoNetwork
    /\ utxos = {}
    /\ batch_rbf = TRUE
    /\ res = [op |-> "none"]
    /\ \E n \in 0 .. MaxHistory : \E h \in [1 .. n -> HistItems(0)] :
          history = [i \in 1 .. n |-> [h[i] EXCEPT !.txid = i]]
    /\ unused_change_addresses = SelectSeq(change_addresses, not_used)

NextHistory == GetUnconfirmedBaseTxForBatching

SpecHistory == InitHistory /\ [][NextHistory]_vars

(***************************************************************************)
(* Address corruption checks                                               *)
(***************************************************************************)
\* None, returned by a getter that has no address to give.
NoAddress == << >>

\* db.get_address_index(address): the (branch, index) recorded for a stored
\* address, which is its place in the stored sequence of its branch.
db_get_address_index(address) ==
    IF address \in Range(receiving_addresses)
    THEN <<0, (CHOOSE i \in DOMAIN receiving_addresses : receiving_addresses[i] = address) - 1>>
    ELSE <<1, (CHOOSE i \in DOMAIN change_addresses : change_addresses[i] = address) - 1>>

\* A check_address that accepts every address.
check_address_skipped(addr) == "ok"

\* check_address(addr): raises when the wallet's own address is not the one
\* derived from its recorded index.
check_address(addr) ==
    IF addr # NoAddress /\ address_is_mine(addr)
    THEN LET index == db_get_address_index(addr)
         IN  IF addr # derive_address(index[1], index[2])
             THEN "InternalAddressCorruption"
             ELSE "ok"
    ELSE "ok"

\* check_returned_address(func): the address func returned, after check_address.
check_returned_address(addr) ==
    IF check_address(addr) = "ok"
    THEN [status |-> "ok", out |-> addr]
    ELSE [status |-> check_address(addr)]

\* get_unused_address(), no payment request pending.
get_unused_address ==
    check_returned_address(IF get_unused_addresses # << >>
                           THEN Head(get_unused_addresses)
                           ELSE NoAddress)

\* get_receiving_address(), no payment request pending: the first unused
\* receiving address, else the first receiving address.
get_receiving_address ==
    check_returned_address(IF receiving_addresses = << >> THEN NoAddress
                           ELSE IF get_unused_addresses # << >>
                           THEN Head(get_unused_addresses)
                           ELSE Head(receiving_addresses))

\* The lists get_change_addresses_for_new_transaction may build before its
\* checks: the preferred addresses, else all unused change addresses, else one
\* of the last gap_limit_for_change change addresses picked at random.
change_addrs_for_new_transaction(preferred_change_addr) ==
    IF preferred_change_addr # << >> THEN {preferred_change_addr}
    ELSE IF calc_unused_change_addresses # << >> THEN {calc_unused_change_addresses}
    ELSE {<<a>> : a \in last_few_addresses(change_addresses, gap_limit_for_change)}

\* get_change_addresses_for_new_transaction with every address of the list
\* passed to check_address; at most one address is returned (multiple_change
\* unset).
checked_change_addresses(change_addrs) ==
    IF \E i \in DOMAIN change_addrs : check_address(change_addrs[i]) # "ok"
    THEN [status |-> "InternalAddressCorruption"]
    ELSE [status |-> "ok",
          out |-> SubSeq(change_addrs, 1,
                         IF Len(change_addrs) < 1 THEN Len(change_addrs) ELSE 1)]

CheckAddress(addr) ==
    /\ res' = [op |-> "check_address", addr |-> addr, status |-> check_address(addr)]
    /\ UNCHANGED <<wallet_vars, sync_vars, sign_vars>>

GetUnusedAddress ==
    /\ res' = [op |-> "get_unused_address", ret |-> get_unused_address]
    /\ UNCHANGED <<wallet_vars, sync_vars, sign_vars>>

GetReceivingAddress ==
    /\ res' = [op |-> "get_receiving_address", ret |-> get_receiving_address]
    /\ UNCHANGED <<wallet_vars, sync_vars, sign_vars>>

GetChangeAddressesForNewTransaction(preferred_change_addr) ==
    /\ \E change_addrs \in change_addrs_for_new_transaction(preferred_change_addr) :
          res' = [op |-> "get_change_addresses_for_new_transaction",
                  ret |-> checked_change_addresses(change_addrs)]
    /\ UNCHANGED <<wallet_vars, sync_vars, sign_vars>>

\* The address a damaged wallet file records at index n of a branch.
misrecorded_address(for_change, n) == derive_address(for_change, n + gap_limit_for_change)

\* Stored sequences of a branch: the derived addresses, those at the given
\* indices replaced by misrecorded ones.
stored_addresses(for_change, len, damaged) ==
    [i \in 1 .. len |-> IF (i - 1) \in damaged
                        THEN misrecorded_address(for_change, i - 1)
                        ELSE derive_address(for_change, i - 1)]

\* A wallet file loaded from storage, any receiving entries and at most one
\* change entry damaged, and unconfirmed coins on any of the stored addresses
\* (synchronize() extends a branch only past confirmed history).
InitAddr ==
    /\ IdleSignVars
    /\ addr_history = [a \in HistAddresses |-> NO_HISTORY]
    /\ synced = TRUE
    /\ \E damaged \in SUBSET (0 .. GapLimit - 1) :
          receiving_addresses = stored_addresses(0, GapLimit, damaged)
    /\ \E damaged \in {{}} \cup {{n} : n \in 0 .. gap_limit_for_change - 1} :
          change_addresses = stored_addresses(1, gap_limit_for_change, damaged)
    /\ wallet_tx = [txid |-> "none", inputs |-> {}, outputs |-> << >>, final |-> TRUE,
                    height |-> "local"]
    /\ tx_fee_known = FALSE
    /\ IdleThreadVars
    /\ network = NoNetwork
    /\ batch_rbf = FALSE
    /\ history = << >>
    /\ \E used \in SUBSET (Range(receiving_addresses) \cup Range(change_addresses)) :
          utxos = {[prevout_txid |-> "funding1", prevout_n |-> 1, value |-> 5000,
                    address |-> a] : a \in used}
    /\ res = [op |-> "none"]
    /\ unused_change_addresses = SelectSeq(change_addresses, not_used)

NextAddr ==
    \/ \E addr \in Range(receiving_addresses) \cup Range(change_addresses)
                      \cup {foreign_address(0), NoAddress} : CheckAddress(addr)
    \/ GetUnusedAddress
    \/ GetReceivingAddress
    \/ \E preferred \in {<< >>, <<foreign_address(0)>>}
                           \cup {<<a>> : a \in Range(change_addresses)} :
          GetChangeAddressesForNewTransaction(preferred)

SpecAddr == InitAddr /\ [][NextAddr]_vars

(***************************************************************************)
(* Address derivation of a multisig wallet                                 *)
(***************************************************************************)
\* k.derive_pubkey(c, i): the public key of a cosigner's keystore at a
\* derivation index, as the number its hex string stands for.  Keys of
\* different keystores compare in an order that varies with the index.
derive_pubkey(k, c, i) == ((k * (c + i + 1)) % 7) * 1000 + k * 100 + c * 10 + i

\* The ways the cosigner keystores can be listed as 'x1/' .. 'xn/'.
KeystoreListings == {[j \in 1 .. NumCosigners |-> p[j]] : p \in Permutations(Cosigners)}

\* The listings a call is made with: x1/ .. xn/ in ascending and in descending
\* order of the cosigners.
CalledListings ==
    {[j \in 1 .. NumCosigners |-> j], [j \in 1 .. NumCosigners |-> NumCosigners + 1 - j]}

\* Multisig_Wallet.derive_pubkeys(c, i): one key per keystore, in the order of
\* get_keystores().
derive_pubkeys(keystores, c, i) == [j \in DOMAIN keystores |-> derive_pubkey(keystores[j], c, i)]

\* transaction.multisig_script(public_keys, m)
multisig_script(public_keys, m) == [m |-> m, public_keys |-> public_keys]

\* pubkeys_to_scriptcode with the keys left in the order of the keystores.
pubkeys_to_scriptcode_unsorted(pubkeys) == multisig_script(pubkeys, NumRequired)

\* Multisig_Wallet.pubkeys_to_scriptcode(pubkeys)
pubkeys_to_scriptcode(pubkeys) == multisig_script(sorted_seq(Range(pubkeys)), NumRequired)

\* Multisig_Wallet.pubkeys_to_address(pubkeys): the hash of the script, under
\* the script type of the wallet.
pubkeys_to_address(pubkeys) == [txin_type |-> "p2wsh", script |-> pubkeys_to_scriptcode(pubkeys)]

\* derive_address(for_change, n) of a multisig wallet with the given keystores.
multisig_derive_address(keystores, for_change, n) ==
    pubkeys_to_address(derive_pubkeys(keystores, for_change, n))

\* A call of derive_address: on the standard wallet, and on a multisig wallet
\* whose cosigner keystores are listed in the given order.
DeriveAddress(keystores, for_change, n) ==
    /\ res' = [op |-> "derive_address", keystores |-> keystores,
               for_change |-> for_change, n |-> n,
               address |-> derive_address(for_change, n),
               multisig_address |-> multisig_derive_address(keystores, for_change, n),
               script |-> pubkeys_to_scriptcode(derive_pubkeys(keystores, for_change, n))]
    /\ UNCHANGED <<wallet_vars, sync_vars, sign_vars>>

NextDerive ==
    \/ Synchronize
    \/ \E for_change \in Branches : CreateNewAddress(for_change)
    \/ \E a \in HistAddresses : ReceiveTx(a)
    \/ \E a \in HistAddresses : ConfirmTx(a)
    \/ \E keystores \in CalledListings, for_change \in Branches, n \in {0, MaxHistIndex} :
          DeriveAddress(keystores, for_change, n)

SpecDerive == InitSync /\ [][NextDerive]_vars

(***************************************************************************)
(* Inputs of addresses the wallet has not generated (standard wallet)      *)
(***************************************************************************)
\* The address of a 2-of-2 multisig script in which the standard wallet's
\* keystore is one of the two cosigners.
cosigned_address == <<3, 0>>

\* The derivation path a partial transaction records for a public key: none,
\* or the path below the keystore's root.
NoPath == [found |-> FALSE]

KeyPath(path) == [found |-> TRUE, path |-> path]

\* ks.find_my_pubkey_in_txinout(txin, only_der_suffix=True), for the keystore
\* of the standard wallet: the path recorded for its public key in the input.
find_my_pubkey_in_txinout(txin) == txin.der_suffix

\* get_address_index(address): the recorded index of a stored address, else
\* the learned one.
get_address_index(address, ephemeral) ==
    IF address \in Range(receiving_addresses) \cup Range(change_addresses)
    THEN db_get_address_index(address)
    ELSE ephemeral[address]

\* is_mine(address), given the learned addresses so far.
is_mine_given(address, ephemeral) ==
    address \in Range(receiving_addresses) \cup Range(change_addresses) \cup DOMAIN ephemeral

\* The learning step with the comparison of addresses left out.
learn_any_two_element_path(txin, address, ephemeral) ==
    LET der_suffix == find_my_pubkey_in_txinout(txin)
    IN  IF der_suffix.found /\ Len(der_suffix.path) = 2
        THEN [is_mine |-> TRUE, ephemeral |-> (address :> der_suffix.path) @@ ephemeral]
        ELSE [is_mine |-> FALSE, ephemeral |-> ephemeral]

\* _learn_derivation_path_for_address_from_txinout(txin, address): whether the
\* address was found to be the wallet's, and the learned addresses after it.
learn_derivation_path_for_address_from_txinout(txin, address, ephemeral) ==
    LET der_suffix == find_my_pubkey_in_txinout(txin)
    IN  IF /\ der_suffix.found
           /\ Len(der_suffix.path) = 2
           /\ derive_address(der_suffix.path[1], der_suffix.path[2]) = address
        THEN [is_mine |-> TRUE, ephemeral |-> (address :> der_suffix.path) @@ ephemeral]
        ELSE [is_mine |-> FALSE, ephemeral |-> ephemeral]

\* add_input_info(txin) of the standard wallet: nothing for an input that is
\* not the wallet's and cannot be learned; otherwise num_sig is 1 and the
\* path of the wallet's key is attached (_add_input_sig_info).
add_input_info_learning(txin, ephemeral) ==
    LET learned == IF is_mine_given(txin.address, ephemeral)
                   THEN [is_mine |-> TRUE, ephemeral |-> ephemeral]
                   ELSE learn_derivation_path_for_address_from_txinout(
                            txin, txin.address, ephemeral)
    IN  IF ~learned.is_mine
        THEN [txin |-> txin, ephemeral |-> ephemeral]
        ELSE [txin |-> [txin EXCEPT !.num_sig = 1,
                                    !.der_suffix = KeyPath(get_address_index(
                                                       txin.address, learned.ephemeral))],
              ephemeral |-> learned.ephemeral]

\* tx.add_info_from_wallet(wallet): add_input_info for the inputs from the
\* n-th on, in their order; what one input teaches the wallet is known when
\* the next is described.
RECURSIVE add_info_from(_, _, _)
add_info_from(inputs, n, ephemeral) ==
    IF n > Len(inputs) THEN [inputs |-> inputs, ephemeral |-> ephemeral]
    ELSE LET described == add_input_info_learning(inputs[n], ephemeral)
         IN  add_info_from([inputs EXCEPT ![n] = described.txin], n + 1, described.ephemeral)

add_info_from_wallet_learning(tx, ephemeral) ==
    LET described == add_info_from(tx.inputs, 1, ephemeral)
    IN  [tx |-> [tx EXCEPT !.inputs = described.inputs], ephemeral |-> described.ephemeral]

\* k.can_sign_txin(txin): the keystore finds its public key in the input and
\* has not signed it yet.
can_sign_txin(txin) ==
    /\ find_my_pubkey_in_txinout(txin).found
    /\ txin.part_sigs[STANDARD_WALLET] = NoSig

\* can_sign with the is_mine test on the input left out.
can_sign_any_recognised_input(tx, ephemeral) ==
    IF tx.kind # "partial" THEN [out |-> FALSE, tx |-> tx, ephemeral |-> ephemeral]
    ELSE IF tx_is_complete(tx) THEN [out |-> FALSE, tx |-> tx, ephemeral |-> ephemeral]
    ELSE LET described == add_info_from_wallet_learning(tx, ephemeral)
         IN  [out |-> \E i \in DOMAIN described.tx.inputs :
                         can_sign_txin(described.tx.inputs[i]),
              tx |-> described.tx, ephemeral |-> described.ephemeral]

\* can_sign(tx): its answer, and tx and the learned addresses as it leaves
\* them.
can_sign(tx, ephemeral) ==
    IF tx.kind # "partial" THEN [out |-> FALSE, tx |-> tx, ephemeral |-> ephemeral]
    ELSE IF tx_is_complete(tx) THEN [out |-> FALSE, tx |-> tx, ephemeral |-> ephemeral]
    ELSE LET described == add_info_from_wallet_learning(tx, ephemeral)
         IN  [out |-> \E i \in DOMAIN described.tx.inputs :
                         /\ is_mine_given(described.tx.inputs[i].address, described.ephemeral)
                         /\ can_sign_txin(described.tx.inputs[i]),
              tx |-> described.tx, ephemeral |-> described.ephemeral]

\* k.sign_transaction(tmp_tx, password) after tmp_tx.add_info_from_wallet: the
\* keystore signs the wallet's inputs it can sign; whether it also signs an
\* input that holds its key but is not the wallet's is left open.
keystore_sign_described(tx, ephemeral, signs_not_mine) ==
    [tx EXCEPT !.inputs =
        [i \in DOMAIN tx.inputs |->
            IF /\ can_sign_txin(tx.inputs[i])
               /\ is_mine_given(tx.inputs[i].address, ephemeral) \/ signs_not_mine
            THEN [tx.inputs[i] EXCEPT !.part_sigs[STANDARD_WALLET] =
                                          signature(STANDARD_WALLET, tx, i)]
            ELSE tx.inputs[i]]]

\* sign_transaction(tx, password) of the standard wallet, which holds private
\* keys: a described copy is signed and combined back, and tx is described.
sign_transaction_learning(tx, ephemeral, signs_not_mine) ==
    IF tx.kind # "partial" THEN [tx |-> tx, ephemeral |-> ephemeral]
    ELSE LET tmp_tx == add_info_from_wallet_learning(tx, ephemeral)
             signed == keystore_sign_described(tmp_tx.tx, tmp_tx.ephemeral, signs_not_mine)
         IN  add_info_from_wallet_learning(signed, tmp_tx.ephemeral)

AddInfoFromWallet ==
    /\ LET described == add_info_from_wallet_learning(txs, ephemeral_addr_to_addr_index)
       IN  /\ txs' = described.tx
           /\ ephemeral_addr_to_addr_index' = described.ephemeral
    /\ last_op' = [op |-> "add_info_from_wallet", tx |-> txs]
    /\ UNCHANGED <<signed_by, sync_vars, fee_vars>>

CanSign ==
    /\ LET answer == can_sign(txs, ephemeral_addr_to_addr_index)
       IN  /\ txs' = answer.tx
           /\ ephemeral_addr_to_addr_index' = answer.ephemeral
           /\ last_op' = [op |-> "can_sign", tx |-> txs, out |-> answer.out]
    /\ UNCHANGED <<signed_by, sync_vars, fee_vars>>

SignTransactionOffline ==
    /\ \E signs_not_mine \in BOOLEAN :
          LET signed == sign_transaction_learning(txs, ephemeral_addr_to_addr_index,
                                                  signs_not_mine)
          IN  /\ txs' = signed.tx
              /\ ephemeral_addr_to_addr_index' = signed.ephemeral
    /\ last_op' = [op |-> "sign_transaction", tx |-> txs]
    /\ UNCHANGED <<signed_by, sync_vars, fee_vars>>

\* The paths a partial transaction may record for the wallet's key.
DerSuffixes ==
    {NoPath, KeyPath(<<0, 0>>), KeyPath(<<0, GapLimit>>), KeyPath(<<0>>),
     KeyPath(<<0, GapLimit, 0>>)}

\* The inputs of a transaction received from elsewhere, not yet described by
\* this wallet: of a generated address, of the address next after the generated
\* ones, of the cosigned script or of a stranger; unsigned or signed by a key
\* of the address; the key of a stranger's script is not found in it.  A
\* transaction that is not partial has every input signed.
received_txin(a, d, has_sig) ==
    [address |-> a, der_suffix |-> d, num_sig |-> 0,
     part_sigs |-> [k \in Pubkeys |->
                      IF has_sig /\ k = (IF a \in {cosigned_address, foreign_address(0)}
                                         THEN 1 ELSE STANDARD_WALLET)
                      THEN <<k, 1, 0>> ELSE NoSig],
     script_sig |-> << >>]

ReceivedTxIns ==
    {received_txin(t[1], t[2], t[3]) :
        t \in {u \in {derive_address(0, 0), derive_address(0, GapLimit), cosigned_address,
                      foreign_address(0)} \X DerSuffixes \X BOOLEAN :
                 u[1] = foreign_address(0) => u[2] = NoPath}}

InitLearn ==
    /\ InitSyncVars
    /\ IdleFeeVars
    /\ signed_by = << >>
    /\ last_op = [op |-> "none"]
    /\ ephemeral_addr_to_addr_index = << >>
    /\ \E n \in 1 .. NumInputs, kind \in {"partial", "final"} :
       \E inputs \in [1 .. n -> ReceivedTxIns] :
          /\ kind = "final" => \A i \in 1 .. n : num_sigs(inputs[i]) > 0
          /\ txs = [kind |-> kind, locktime |-> 1, inputs |-> inputs]

NextLearn ==
    \/ AddInfoFromWallet
    \/ CanSign
    \/ SignTransactionOffline

SpecLearn == InitLearn /\ [][NextLearn]_vars

(***************************************************************************)
(* Frozen addresses and coins                                              *)
(***************************************************************************)
\* set_frozen_state_of_addresses(addrs, freeze): the frozen addresses after
\* the call; nothing changes unless every address is the wallet's.
set_frozen_state_of_addresses(addrs, freeze) ==
    IF \A addr \in addrs : address_is_mine(addr)
    THEN [ok |-> TRUE,
          frozen_addresses |-> IF freeze THEN frozen_addresses \cup addrs
                               ELSE frozen_addresses \ addrs]
    ELSE [ok |-> FALSE, frozen_addresses |-> frozen_addresses]

\* set_frozen_state_of_coins(utxos, freeze): the frozen outpoints after the call.
set_frozen_state_of_coins(coins, freeze) ==
    LET outpoints == {prevout_str(utxo) : utxo \in coins}
    IN  IF freeze THEN frozen_coins \cup outpoints ELSE frozen_coins \ outpoints

\* What a call that unfreezes a set directly after the call that froze the same
\* set remembers of the state before the two calls.
round_trip_of(op, target, freeze) ==
    IF ~freeze /\ res.op = op /\ res.freeze /\ res.target = target
    THEN [made |-> TRUE, spendable |-> res.spendable_before, frozen |-> res.frozen_before]
    ELSE [made |-> FALSE]

SetFrozenStateOfAddresses(addrs, freeze) ==
    /\ frozen_addresses' = set_frozen_state_of_addresses(addrs, freeze).frozen_addresses
    /\ res' = [op |-> "set_frozen_state_of_addresses", target |-> addrs, freeze |-> freeze,
               ok |-> set_frozen_state_of_addresses(addrs, freeze).ok,
               spendable_before |-> get_spendable_coins,
               frozen_before |-> frozen_addresses,
               round_trip |-> round_trip_of("set_frozen_state_of_addresses", addrs, freeze)]
    /\ db' = IF set_frozen_state_of_addresses(addrs, freeze).ok
             THEN [db EXCEPT !.frozen_addresses = frozen_addresses']
             ELSE db
    /\ UNCHANGED <<wallet_tx, tx_fee_known, utxos, batch_rbf, history, frozen_coins,
                   network, thread_vars, sync_vars, sign_vars>>

SetFrozenStateOfCoins(coins, freeze) ==
    /\ frozen_coins' = set_frozen_state_of_coins(coins, freeze)
    /\ res' = [op |-> "set_frozen_state_of_coins",
               target |-> {prevout_str(utxo) : utxo \in coins}, freeze |-> freeze,
               ok |-> TRUE,
               spendable_before |-> get_spendable_coins,
               frozen_before |-> frozen_coins,
               round_trip |-> round_trip_of("set_frozen_state_of_coins",
                                            {prevout_str(utxo) : utxo \in coins}, freeze)]
    /\ db' = [db EXCEPT !.frozen_coins = frozen_coins']
    /\ UNCHANGED <<wallet_tx, tx_fee_known, utxos, batch_rbf, history, frozen_addresses,
                   network, thread_vars, sync_vars, sign_vars>>

GetSpendableCoins ==
    /\ res' = [op |-> "get_spendable_coins", out |-> get_spendable_coins]
    /\ UNCHANGED <<wallet_vars, sync_vars, sign_vars>>

\* A wallet with one coin on each generated receiving address and a second
\* coin on the first; nothing is frozen.
InitFreeze ==
    /\ InitSyncVars
    /\ IdleSignVars
    /\ wallet_tx = [txid |-> "none", inputs |-> {}, outputs |-> << >>, final |-> TRUE,
                    height |-> "local"]
    /\ tx_fee_known = FALSE
    /\ batch_rbf = FALSE
    /\ history = << >>
    /\ IdleThreadVars
    /\ network = NoNetwork
    /\ utxos = {[prevout_txid |-> "funding1", prevout_n |-> i, value |-> 5000,
                 address |-> receiving_addresses[i]] : i \in DOMAIN receiving_addresses}
               \cup {[prevout_txid |-> "funding2", prevout_n |-> 1, value |-> 5000,
                      address |-> receiving_addresses[1]]}
    /\ res = [op |-> "none"]
    /\ unused_change_addresses = SelectSeq(change_addresses, not_used)

NextFreeze ==
    \/ \E addrs \in SUBSET (Range(receiving_addresses) \cup {foreign_address(0)}),
          freeze \in BOOLEAN : SetFrozenStateOfAddresses(addrs, freeze)
    \/ \E coins \in SUBSET utxos, freeze \in BOOLEAN : SetFrozenStateOfCoins(coins, freeze)
    \/ GetSpendableCoins

SpecFreeze == InitFreeze /\ [][NextFreeze]_vars

(***************************************************************************)
(* Locktime of a new transaction                                           *)
(***************************************************************************)
\* STALE_DELAY, in seconds.
STALE_DELAY == 8 * 60 * 60

\* The locktime with the jitter subtracted and no floor at zero.
get_locktime_without_floor(net, one_in_ten, back) ==
    IF ~net.connected THEN 0
    ELSE IF ~net.has_header THEN 0
    ELSE IF net.tip_age > STALE_DELAY THEN 0
    ELSE IF one_in_ten = 0 THEN net.height - back
    ELSE net.height

\* get_locktime_for_new_transaction(network); one_in_ten and back are the two
\* random draws, random.randint(0, 9) and random.randint(0, 99).  tip_age is
\* time.time() - header['timestamp'].
get_locktime_for_new_transaction(net, one_in_ten, back) ==
    IF ~net.connected THEN 0
    ELSE IF ~net.has_header THEN 0
    ELSE IF net.tip_age > STALE_DELAY THEN 0
    ELSE IF one_in_ten = 0 THEN Max(0, net.height - back)
    ELSE net.height

GetLocktimeForNewTransaction(one_in_ten, back) ==
    /\ res' = [op |-> "get_locktime_for_new_transaction",
               out |-> get_locktime_for_new_transaction(network, one_in_ten, back)]
    /\ UNCHANGED <<wallet_vars, sync_vars, sign_vars>>

\* The networks a wallet may be attached to: none, one without a tip header,
\* and chains of several heights whose tip is fresh, exactly STALE_DELAY old,
\* or older.
Networks ==
    {NoNetwork}
        \cup {[connected |-> TRUE, has_header |-> h, tip_age |-> age, height |-> height] :
                 h \in BOOLEAN,
                 age \in {0, STALE_DELAY - 1, STALE_DELAY, STALE_DELAY + 1, 2 * STALE_DELAY},
                 height \in {0, 1, 50, 99, 100, 101, 500}}

InitLocktime ==
    /\ InitSyncVars
    /\ IdleSignVars
    /\ wallet_tx = [txid |-> "none", inputs |-> {}, outputs |-> << >>, final |-> TRUE,
                    height |-> "local"]
    /\ tx_fee_known = FALSE
    /\ utxos = {}
    /\ batch_rbf = FALSE
    /\ history = << >>
    /\ IdleThreadVars
    /\ network \in Networks
    /\ res = [op |-> "none"]
    /\ unused_change_addresses = SelectSeq(change_addresses, not_used)

NextLocktime ==
    \E one_in_ten \in 0 .. 9, back \in 0 .. 99 : GetLocktimeForNewTransaction(one_in_ten, back)

SpecLocktime == InitLocktime /\ [][NextLocktime]_vars

(***************************************************************************)
(* Wallet calls made from several threads                                  *)
(***************************************************************************)
\* `with self.lock` can be entered: the RLock is free or the thread owns it.
can_acquire(t) == lock.owner \in {NoOwner, t}

\* The RLock after the thread has entered `with self.lock`.
acquire(t) == [owner |-> t, count |-> lock.count + 1]

\* The RLock after its owner has left a `with self.lock` block.
release ==
    IF lock.count = 1 THEN [owner |-> NoOwner, count |-> 0]
    ELSE [lock EXCEPT !.count = @ - 1]

\* What no step of a thread changes.
thread_frame ==
    <<wallet_tx, tx_fee_known, utxos, batch_rbf, history, network, res, addr_history,
      gap_limit, sign_vars>>

\* A thread calls create_new_address(for_change).
EnterCreateNewAddress(t, for_change) ==
    /\ threads[t].pc = "idle"
    /\ Len(addresses_of(for_change)) < limit_of(for_change) + MaxManual
    /\ threads' = [threads EXCEPT ![t] = [IdleThread EXCEPT !.pc = "create_new_address",
                                                            !.for_change = for_change]]
    /\ UNCHANGED <<lock, db, frozen_addresses, frozen_coins, receiving_addresses,
                   change_addresses, unused_change_addresses, synced, thread_frame>>

\* create_new_address: `with self.lock:`
CreateNewAddress_Lock(t) ==
    /\ threads[t].pc = "create_new_address"
    /\ can_acquire(t)
    /\ lock' = acquire(t)
    /\ threads' = [threads EXCEPT ![t].pc = "create_new_address:n"]
    /\ UNCHANGED <<db, frozen_addresses, frozen_coins, receiving_addresses,
                   change_addresses, unused_change_addresses, synced, thread_frame>>

\* create_new_address: n = self.db.num_change_addresses() or num_receiving_addresses()
CreateNewAddress_N(t) ==
    /\ threads[t].pc = "create_new_address:n"
    /\ threads' = [threads EXCEPT ![t].pc = "create_new_address:add",
                                  ![t].n = Len(addresses_of(threads[t].for_change))]
    /\ UNCHANGED <<lock, db, frozen_addresses, frozen_coins, receiving_addresses,
                   change_addresses, unused_change_addresses, synced, thread_frame>>

\* create_new_address: the address of index n is derived and appended, the
\* lock is left, and the call returns (into synchronize_sequence if it was
\* called from there).
CreateNewAddress_Add(t) ==
    /\ threads[t].pc = "create_new_address:add"
    /\ LET address == derive_address(threads[t].for_change, threads[t].n)
       IN  IF threads[t].for_change = 1
           THEN /\ change_addresses' = Append(change_addresses, address)
                /\ unused_change_addresses' = Append(unused_change_addresses, address)
                /\ UNCHANGED receiving_addresses
           ELSE /\ receiving_addresses' = Append(receiving_addresses, address)
                /\ UNCHANGED <<change_addresses, unused_change_addresses>>
    /\ lock' = release
    /\ threads' = [threads EXCEPT ![t] =
                      IF threads[t].caller = "synchronize"
                      THEN [threads[t] EXCEPT !.pc = "synchronize_sequence"]
                      ELSE IdleThread]
    /\ synced' = FALSE
    /\ UNCHANGED <<db, frozen_addresses, frozen_coins, thread_frame>>

\* A thread calls synchronize().
EnterSynchronize(t) ==
    /\ threads[t].pc = "idle"
    /\ threads' = [threads EXCEPT ![t] = [IdleThread EXCEPT !.pc = "synchronize"]]
    /\ UNCHANGED <<lock, db, frozen_addresses, frozen_coins, receiving_addresses,
                   change_addresses, unused_change_addresses, synced, thread_frame>>

\* synchronize: `with self.lock:`, then synchronize_sequence(False).
Synchronize_Lock(t) ==
    /\ threads[t].pc = "synchronize"
    /\ can_acquire(t)
    /\ lock' = acquire(t)
    /\ threads' = [threads EXCEPT ![t].pc = "synchronize_sequence",
                                  ![t].caller = "synchronize",
                                  ![t].for_change = 0]
    /\ UNCHANGED <<db, frozen_addresses, frozen_coins, receiving_addresses,
                   change_addresses, unused_change_addresses, synced, thread_frame>>

another_address_needed_below_limit(addrs, for_change) == Len(addrs) < limit_of(for_change)

\* The test of one pass of the loop of synchronize_sequence(for_change):
\* another address is to be created.
another_address_needed(addrs, for_change) ==
    \/ Len(addrs) < limit_of(for_change)
    \/ \E a \in last_few_addresses(addrs, limit_of(for_change)) : address_is_old(a)

\* One pass of `while True` in synchronize_sequence: create_new_address is
\* called, or the loop is left; after the change branch synchronize() leaves
\* the lock and returns.
SynchronizeSequence_Pass(t) ==
    /\ threads[t].pc = "synchronize_sequence"
    /\ LET for_change == threads[t].for_change
       IN  IF another_address_needed(addresses_of(for_change), for_change)
           THEN /\ threads' = [threads EXCEPT ![t].pc = "create_new_address"]
                /\ UNCHANGED <<lock, synced>>
           ELSE IF for_change = 0
           THEN /\ threads' = [threads EXCEPT ![t].for_change = 1]
                /\ UNCHANGED <<lock, synced>>
           ELSE /\ threads' = [threads EXCEPT ![t] = IdleThread]
                /\ lock' = release
                /\ synced' = TRUE
    /\ UNCHANGED <<db, frozen_addresses, frozen_coins, receiving_addresses,
                   change_addresses, unused_change_addresses, thread_frame>>

\* A thread calls set_frozen_state_of_addresses(target, freeze) (op
\* "addresses") or set_frozen_state_of_coins(target, freeze) (op "coins").
EnterSetFrozenState(t, op, target, freeze) ==
    /\ threads[t].pc = "idle"
    /\ threads' = [threads EXCEPT ![t] = [IdleThread EXCEPT !.pc = "set_frozen_state",
                                                            !.op = op,
                                                            !.target = target,
                                                            !.freeze = freeze]]
    /\ UNCHANGED <<lock, db, frozen_addresses, frozen_coins, receiving_addresses,
                   change_addresses, unused_change_addresses, synced, thread_frame>>

\* self.frozen_addresses |= set(addrs) (or -=), likewise for frozen_coins: the
\* set object is updated in place, in one step of the interpreter, and
\* without the lock.  set_frozen_state_of_addresses returns False at once if
\* an address is not the wallet's.
SetFrozenState_Update(t) ==
    /\ threads[t].pc = "set_frozen_state"
    /\ IF threads[t].op = "addresses"
       THEN LET out == set_frozen_state_of_addresses(threads[t].target, threads[t].freeze)
            IN  /\ frozen_addresses' = out.frozen_addresses
                /\ threads' = [threads EXCEPT ![t] =
                                  IF out.ok THEN [threads[t] EXCEPT !.pc = "set_frozen_state:list"]
                                  ELSE IdleThread]
                /\ UNCHANGED frozen_coins
       ELSE /\ frozen_coins' = set_frozen_state_of_coins(threads[t].target, threads[t].freeze)
            /\ threads' = [threads EXCEPT ![t].pc = "set_frozen_state:list"]
            /\ UNCHANGED frozen_addresses
    /\ UNCHANGED <<lock, db, receiving_addresses, change_addresses, unused_change_addresses,
                   synced, thread_frame>>

\* list(self.frozen_addresses), the argument of db.put, is evaluated.
SetFrozenState_List(t) ==
    /\ threads[t].pc = "set_frozen_state:list"
    /\ threads' = [threads EXCEPT ![t].pc = "set_frozen_state:put",
                                  ![t].snapshot = IF threads[t].op = "addresses"
                                                  THEN frozen_addresses ELSE frozen_coins]
    /\ UNCHANGED <<lock, db, frozen_addresses, frozen_coins, receiving_addresses,
                   change_addresses, unused_change_addresses, synced, thread_frame>>

\* self.db.put('frozen_addresses', ...) stores the list; the call returns.
SetFrozenState_Put(t) ==
    /\ threads[t].pc = "set_frozen_state:put"
    /\ db' = IF threads[t].op = "addresses"
             THEN [db EXCEPT !.frozen_addresses = threads[t].snapshot]
             ELSE [db EXCEPT !.frozen_coins = threads[t].snapshot]
    /\ threads' = [threads EXCEPT ![t] = IdleThread]
    /\ UNCHANGED <<lock, frozen_addresses, frozen_coins, receiving_addresses,
                   change_addresses, unused_change_addresses, synced, thread_frame>>

\* The sets a caller freezes or unfreezes: the first receiving address, alone
\* or together with an address of another wallet.
FrozenStateAddresses ==
    {{receiving_addresses[1]}, {receiving_addresses[1], foreign_address(0)}}

\* The histories a restored wallet is loaded with: none, or deeply confirmed
\* history on its first receiving address.
LoadedHistories ==
    {[a \in HistAddresses |-> IF a \in used THEN REQ_CONF ELSE NO_HISTORY] :
        used \in {{}, {derive_address(0, 0)}}}

\* A wallet with a coin on its first receiving address, nothing frozen, no
\* thread in a call.
InitThreads ==
    /\ addr_history \in LoadedHistories
    /\ receiving_addresses = [i \in 1 .. GapLimit |-> derive_address(0, i - 1)]
    /\ change_addresses = [i \in 1 .. gap_limit_for_change |-> derive_address(1, i - 1)]
    /\ unused_change_addresses = change_addresses
    /\ synced = \A a \in HistAddresses : addr_history[a] = NO_HISTORY
    /\ IdleSignVars
    /\ IdleThreadVars
    /\ wallet_tx = [txid |-> "none", inputs |-> {}, outputs |-> << >>, final |-> TRUE,
                    height |-> "local"]
    /\ tx_fee_known = FALSE
    /\ batch_rbf = FALSE
    /\ history = << >>
    /\ network = NoNetwork
    /\ utxos = {[prevout_txid |-> "funding1", prevout_n |-> i, value |-> 5000,
                 address |-> receiving_addresses[i]] : i \in {1}}
    /\ res = [op |-> "none"]

NextThreads ==
    \E t \in Threads :
        \/ \E for_change \in Branches : EnterCreateNewAddress(t, for_change)
        \/ CreateNewAddress_Lock(t)
        \/ CreateNewAddress_N(t)
        \/ CreateNewAddress_Add(t)
        \/ EnterSynchronize(t)
        \/ Synchronize_Lock(t)
        \/ SynchronizeSequence_Pass(t)
        \/ \E target \in FrozenStateAddresses, freeze \in BOOLEAN :
              EnterSetFrozenState(t, "addresses", target, freeze)
        \/ \E utxo \in utxos, freeze \in BOOLEAN :
              EnterSetFrozenState(t, "coins", {utxo}, freeze)
        \/ SetFrozenState_Update(t)
        \/ SetFrozenState_List(t)
        \/ SetFrozenState_Put(t)

SpecThreads == InitThreads /\ [][NextThreads]_vars

(***************************************************************************)
(* synchronize() step by step                                              *)
(***************************************************************************)
\* The histories the address synchronizer has reported: at most MaxUsed
\* addresses have history, each one confirmation short of REQ_CONF or at it.
ReportedHistories ==
    {h \in [HistAddresses -> {NO_HISTORY, REQ_CONF - 1, REQ_CONF}] :
        Cardinality({a \in HistAddresses : h[a] # NO_HISTORY}) <= MaxUsed}

\* A wallet as generated (each branch at its limit) to which history has been
\* reported since; no thread is in a call.
InitSyncLoop ==
    /\ addr_history \in ReportedHistories
    /\ receiving_addresses = [i \in 1 .. GapLimit |-> derive_address(0, i - 1)]
    /\ change_addresses = [i \in 1 .. gap_limit_for_change |-> derive_address(1, i - 1)]
    /\ unused_change_addresses = change_addresses
    /\ synced = FALSE
    /\ IdleSignVars
    /\ IdleThreadVars
    /\ wallet_tx = [txid |-> "none", inputs |-> {}, outputs |-> << >>, final |-> TRUE,
                    height |-> "local"]
    /\ tx_fee_known = FALSE
    /\ batch_rbf = FALSE
    /\ history = << >>
    /\ network = NoNetwork
    /\ utxos = {}
    /\ res = [op |-> "none"]

\* A step of a thread inside a call.
Run(t) ==
    \/ CreateNewAddress_Lock(t)
    \/ CreateNewAddress_N(t)
    \/ CreateNewAddress_Add(t)
    \/ Synchronize_Lock(t)
    \/ SynchronizeSequence_Pass(t)

NextSyncLoop ==
    \E t \in Threads :
        \/ \E for_change \in Branches : EnterCreateNewAddress(t, for_change)
        \/ EnterSynchronize(t)
        \/ Run(t)

\* A thread that can take a step eventually takes one.
SpecSyncLoop ==
    InitSyncLoop /\ [][NextSyncLoop]_vars /\ \A t \in Threads : WF_vars(Run(t))

(***************************************************************************)
(* mktx, sweep and the finality of what they return                        *)
(***************************************************************************)
mktx_with_rbf_as_asked(outputs, fee, rbf, sign) ==
    {IF out.status = "ok"
     THEN [status |-> "ok", tx |-> set_rbf(out.tx, rbf), signed |-> sign]
     ELSE [status |-> out.status] :
        out \in make_unsigned_transaction(get_spendable_coins, FALSE, outputs, fee)}

\* mktx(outputs, fee, rbf, sign): make_unsigned_transaction on the spendable
\* coins, then tx.set_rbf(False) whatever rbf is, then sign_transaction if
\* sign; the errors of make_unsigned_transaction pass through.
mktx(outputs, fee, rbf, sign) ==
    {IF out.status = "ok"
     THEN [status |-> "ok", tx |-> set_rbf(out.tx, FALSE), signed |-> sign]
     ELSE [status |-> out.status] :
        out \in make_unsigned_transaction(get_spendable_coins, FALSE, outputs, fee)}

Mktx(outputs, fee, rbf, sign) ==
    /\ \E out \in mktx(outputs, fee, rbf, sign) :
          res' = [op |-> "mktx", outputs |-> outputs, fee |-> fee, rbf |-> rbf, sign |-> sign,
                  out |-> out]
    /\ UNCHANGED <<wallet_vars, sync_vars, sign_vars>>

\* The transaction mktx or sweep returned, as bump_fee reads it: the wallet
\* has not stored it.
returned_transaction(tx) ==
    [txid |-> "returned", inputs |-> tx.inputs, outputs |-> tx.outputs,
     final |-> is_final(tx), height |-> "local"]

\* bump_fee(tx=the transaction the last mktx or sweep call returned, ...)
BumpFeeOfReturned(new_fee_rate, coins) ==
    /\ res.op \in {"mktx", "sweep"}
    /\ res.out.status = "ok"
    /\ \E out \in bump_fee(returned_transaction(res.out.tx), new_fee_rate, coins) :
          res' = [op |-> "bump_fee", new_fee_rate |-> new_fee_rate, coins |-> coins,
                  tx |-> res.out.tx, from |-> res.op,
                  rbf |-> IF res.op = "mktx" THEN res.rbf ELSE FALSE,
                  out |-> out]
    /\ UNCHANGED <<wallet_vars, sync_vars, sign_vars>>

\* A wallet whose unconfirmed transaction spends its largest coin, with a
\* second coin unspent.
InitMktx ==
    /\ InitSyncVars
    /\ IdleSignVars
    /\ res = [op |-> "none"]
    /\ FeeScenario({v \in InputValues : \A w \in InputValues : w <= v}, {"unconfirmed"},
                   {FALSE}, {FALSE}, {TRUE}, {TRUE})

NextMktx ==
    \/ \E outputs \in RequestedOutputs, fee \in Fees, rbf \in BOOLEAN, sign \in BOOLEAN :
          Mktx(outputs, fee, rbf, sign)
    \/ \E privkeys \in SweepKeys, fee \in Fees, imax \in SweepLimits : Sweep(privkeys, fee, imax)
    \/ \E new_fee_rate \in NewFeeRates, given \in BOOLEAN :
          BumpFeeOfReturned(new_fee_rate, [given |-> given, coins |-> {}])

SpecMktx == InitMktx /\ [][NextMktx]_vars

(***************************************************************************)
(* The cached list of unused change addresses                              *)
(***************************************************************************)
\* calc_unused_change_addresses(): the cached list is filtered and returned.
CalcUnusedChangeAddresses ==
    /\ unused_change_addresses' = calc_unused_change_addresses
    /\ res' = [op |-> "calc_unused_change_addresses", out |-> calc_unused_change_addresses]
    /\ UNCHANGED <<receiving_addresses, change_addresses, addr_history, synced, gap_limit,
                   wallet_vars, sign_vars>>

\* add_transaction: the wallet has no transaction and is given a local one
\* that pays some of its addresses.
AddTransaction(addresses) ==
    /\ wallet_tx.txid = "none"
    /\ wallet_tx' = [txid |-> "local_tx",
                     inputs |-> {[prevout_txid |-> "foreign", prevout_n |-> 1, value |-> 9000,
                                  address |-> foreign_address(0)]},
                     outputs |-> [i \in DOMAIN addresses |-> TxOutput(addresses[i], 1000)],
                     final |-> TRUE, height |-> "local"]
    /\ utxos' = {[prevout_txid |-> "local_tx", prevout_n |-> i, value |-> 1000,
                  address |-> addresses[i]] : i \in DOMAIN addresses}
    /\ history' = <<hist_item(wallet_tx')>>
    /\ res' = [op |-> "add_transaction"]
    /\ UNCHANGED <<tx_fee_known, batch_rbf, frozen_addresses, frozen_coins, network,
                   thread_vars, db, sync_vars, sign_vars>>

\* remove_transaction: the local transaction is removed, and with it the
\* history of the address it paid.
RemoveTransaction ==
    /\ wallet_tx.txid # "none"
    /\ wallet_tx' = [txid |-> "none", inputs |-> {}, outputs |-> << >>, final |-> TRUE,
                     height |-> "local"]
    /\ utxos' = {}
    /\ history' = << >>
    /\ res' = [op |-> "remove_transaction"]
    /\ UNCHANGED <<tx_fee_known, batch_rbf, frozen_addresses, frozen_coins, network,
                   thread_vars, db, sync_vars, sign_vars>>

NextUnused ==
    \/ \E for_change \in Branches : CreateNewAddress(for_change)
    \/ CalcUnusedChangeAddresses
    \/ \E address \in Range(receiving_addresses) \cup Range(change_addresses) :
          AddTransaction(<<address>>)
    \/ AddTransaction(Tail(change_addresses))
    \/ RemoveTransaction

SpecUnused == InitSync /\ [][NextUnused]_vars

(***************************************************************************)
(* change_gap_limit and min_acceptable_gap                                 *)
(***************************************************************************)
\* The values change_gap_limit is called with.
GapValues == 0 .. GapLimit + 1

\* The index a negative or too large slice bound stands for in a list of len items.
slice_index(len, i) ==
    IF i < 0 THEN Max(len + i, 0) ELSE IF i > len THEN len ELSE i

\* addresses[0:stop]
slice_up_to(addresses, stop) == SubSeq(addresses, 1, slice_index(Len(addresses), stop))

\* num_unused_trailing_addresses(addresses): the addresses at the end without history.
RECURSIVE num_unused_trailing_addresses(_)
num_unused_trailing_addresses(addresses) ==
    IF addresses = << >> \/ has_history(addresses[Len(addresses)])
    THEN 0
    ELSE 1 + num_unused_trailing_addresses(SubSeq(addresses, 1, Len(addresses) - 1))

\* The loop of min_acceptable_gap: n is the current run, nmax the longest so far.
RECURSIVE longest_run_of_not_old(_, _, _)
longest_run_of_not_old(addresses, n, nmax) ==
    IF addresses = << >> THEN nmax
    ELSE IF address_is_old(Head(addresses))
    THEN longest_run_of_not_old(Tail(addresses), 0, nmax)
    ELSE longest_run_of_not_old(Tail(addresses), n + 1, Max(nmax, n + 1))

\* min_acceptable_gap()
min_acceptable_gap ==
    LET k == num_unused_trailing_addresses(receiving_addresses)
    IN  longest_run_of_not_old(slice_up_to(receiving_addresses, 0 - k), 0, 0) + 1

\* The receiving addresses before the trailing run of addresses without history.
before_trailing_run ==
    SubSeq(receiving_addresses, 1,
           Len(receiving_addresses) - num_unused_trailing_addresses(receiving_addresses))

\* The length of the longest run of consecutive addresses of addrs that are not old.
longest_run(addrs) ==
    LET runs == {r \in (DOMAIN addrs) \X (DOMAIN addrs) :
                    /\ r[1] <= r[2]
                    /\ \A m \in r[1] .. r[2] : ~address_is_old(addrs[m])}
    IN  IF runs = {} THEN 0
        ELSE CHOOSE n \in 1 .. Len(addrs) :
                /\ \E r \in runs : r[2] - r[1] + 1 = n
                /\ \A r \in runs : r[2] - r[1] + 1 <= n

\* change_gap_limit(value)
ChangeGapLimit(value) ==
    /\ IF value >= min_acceptable_gap
       THEN /\ gap_limit' = value
            /\ db' = [db EXCEPT !.gap_limit = value]
       ELSE UNCHANGED <<gap_limit, db>>
    /\ res' = [op |-> "change_gap_limit", value |-> value,
               ret |-> value >= min_acceptable_gap,
               min_acceptable_gap |-> min_acceptable_gap,
               longest_run |-> longest_run(before_trailing_run),
               before |-> [gap_limit |-> gap_limit, stored |-> db.gap_limit]]
    /\ synced' = FALSE
    /\ UNCHANGED <<receiving_addresses, change_addresses, addr_history, unused_change_addresses,
                   wallet_tx, tx_fee_known, utxos, batch_rbf, history, frozen_addresses,
                   frozen_coins, network, thread_vars, sign_vars>>

NextGap ==
    \/ Synchronize
    \/ \E for_change \in Branches : CreateNewAddress(for_change)
    \/ \E address \in HistAddresses : ReceiveTx(address)
    \/ \E address \in HistAddresses : ConfirmTx(address)
    \/ \E value \in GapValues : ChangeGapLimit(value)

SpecGap == InitSync /\ [][NextGap]_vars

(***************************************************************************)
(* Imported_Wallet: importing and deleting addresses and private keys      *)
(***************************************************************************)
\* Bounds of the model.
MaxMarks == 3          \* labels, payment requests and frozen addresses, together
MaxHistoryItems == 3   \* (address, transaction) pairs the address synchronizer reports

TxHashes == {"t1", "t2"}

\* The address has no public key in the db.
NoPubkey == "none"

\* bitcoin.WIF_SCRIPT_TYPES.keys()
WIF_SCRIPT_TYPES == {"p2pkh", "p2wpkh", "p2wpkh-p2sh", "p2sh", "p2wsh", "p2wsh-p2sh"}

\* The script types bitcoin.pubkey_to_address makes an address for.
PubkeyAddressTypes == {"p2pkh", "p2wpkh", "p2wpkh-p2sh"}

\* bitcoin.pubkey_to_address(txin_type, pubkey), where it is implemented.
pubkey_to_address(txin_type, pubkey) == <<txin_type, pubkey>>

\* The private keys handed to import_private_keys: (script type, public key).
WifKeys == {<<"p2pkh", "k1">>, <<"p2wpkh", "k1">>, <<"p2pkh", "k2">>, <<"p2sh", "k2">>}

\* The addresses handed to import_addresses.
WatchedAddresses == {<<"address", "a1">>, <<"address", "a2">>}

\* Every address an imported wallet of the model can hold.
ImportableAddresses ==
    {pubkey_to_address(k[1], k[2]) : k \in {w \in WifKeys : w[1] \in PubkeyAddressTypes}}
        \cup WatchedAddresses

\* db.has_imported_address(address)
has_imported_address(imported_addresses, address) == address \in DOMAIN imported_addresses

\* Imported_Wallet.is_mine(address)
imported_is_mine(address) == has_imported_address(db.imported_addresses, address)

\* Imported_Wallet.get_public_key(address)
get_public_key(address) ==
    IF imported_is_mine(address) THEN db.imported_addresses[address].pubkey ELSE NoPubkey

\* db.add_imported_address(addr, d)
add_imported_address(imported_addresses, addr, d) == (addr :> d) @@ imported_addresses

\* db.remove_imported_address(addr); db.remove_addr_history(addr) on the history.
remove_address(table, addr) == [a \in DOMAIN table \ {addr} |-> table[a]]

\* get_address_history(addr): the transactions of the address.
get_address_history(addr) == IF addr \in DOMAIN db.history THEN db.history[addr] ELSE {}

transactions_to_remove_ignoring_others(address) == get_address_history(address)

\* delete_address: transactions_to_remove after transactions_new is taken out.
transactions_to_remove(address) ==
    LET transactions_new ==
            UNION {get_address_history(addr) : addr \in DOMAIN db.history \ {address}}
    IN  get_address_history(address) \ transactions_new

key_still_used_as_p2pkh(imported_addresses, pubkey) ==
    has_imported_address(imported_addresses, pubkey_to_address("p2pkh", pubkey))

\* delete_address: the loop over the script types finds an imported address of the key.
key_still_used(imported_addresses, pubkey) ==
    \E txin_type \in WIF_SCRIPT_TYPES :
        /\ txin_type \in PubkeyAddressTypes
        /\ has_imported_address(imported_addresses, pubkey_to_address(txin_type, pubkey))

\* Labels, payment requests and frozen addresses of the wallet, counted.
marks == Cardinality(db.labels) + Cardinality(db.payment_requests)
            + Cardinality(frozen_addresses)

imported_frame ==
    <<sync_vars, sign_vars, wallet_tx, tx_fee_known, utxos, batch_rbf, history, frozen_coins,
      network, thread_vars>>

\* import_private_keys([key]): the keystore takes the key, the wallet the
\* address if the script type is one it implements.
ImportPrivateKey(key) ==
    /\ db.keystore.present
    /\ LET txin_type == key[1]
           pubkey == key[2]
           good == txin_type \in {"p2pkh", "p2wpkh", "p2wpkh-p2sh"}
           addr == pubkey_to_address(txin_type, pubkey)
       IN  /\ db' = [db EXCEPT
                        !.keystore.keypairs = @ \cup {pubkey},
                        !.imported_addresses =
                            IF good
                            THEN add_imported_address(@, addr,
                                                      [type |-> txin_type, pubkey |-> pubkey])
                            ELSE @]
           /\ res' = [op |-> "import_private_keys", good_addr |-> IF good THEN {addr} ELSE {}]
    /\ UNCHANGED <<frozen_addresses, imported_frame>>

\* import_addresses([address]) on a watching-only wallet.
ImportAddress(address) ==
    /\ ~db.keystore.present
    /\ LET good == ~has_imported_address(db.imported_addresses, address)
       IN  /\ db' = [db EXCEPT
                        !.imported_addresses =
                            IF good
                            THEN add_imported_address(@, address,
                                                      [type |-> "address", pubkey |-> NoPubkey])
                            ELSE @]
           /\ res' = [op |-> "import_addresses", good_addr |-> IF good THEN {address} ELSE {}]
    /\ UNCHANGED <<frozen_addresses, imported_frame>>

\* The address synchronizer reports a transaction in the history of an address.
ReceiveHistory(address, tx_hash) ==
    /\ imported_is_mine(address)
    /\ tx_hash \notin get_address_history(address)
    /\ Cardinality({p \in (DOMAIN db.history) \X TxHashes : p[2] \in db.history[p[1]]})
          < MaxHistoryItems
    /\ db' = [db EXCEPT
                 !.history = (address :> (get_address_history(address) \cup {tx_hash})) @@ @,
                 !.transactions = @ \cup {tx_hash}]
    /\ UNCHANGED <<frozen_addresses, res, imported_frame>>

\* set_label(name, text) with a text, for an address of the wallet.
SetLabel(name) ==
    /\ marks < MaxMarks
    /\ db' = [db EXCEPT !.labels = @ \cup {name}]
    /\ UNCHANGED <<frozen_addresses, res, imported_frame>>

\* add_payment_request of an on-chain request, with or without a memo.
AddPaymentRequest(addr, memo) ==
    /\ marks + (IF memo THEN 1 ELSE 0) < MaxMarks
    /\ imported_is_mine(addr)
    /\ db' = [db EXCEPT !.payment_requests = @ \cup {addr},
                        !.labels = IF memo THEN @ \cup {addr} ELSE @]
    /\ UNCHANGED <<frozen_addresses, res, imported_frame>>

\* set_frozen_state_of_addresses([addr], True)
FreezeImportedAddress(addr) ==
    /\ marks < MaxMarks
    /\ IF imported_is_mine(addr)
       THEN /\ frozen_addresses' = frozen_addresses \cup {addr}
            /\ db' = [db EXCEPT !.frozen_addresses = frozen_addresses']
       ELSE UNCHANGED <<frozen_addresses, db>>
    /\ UNCHANGED <<res, imported_frame>>

\* delete_address(address)
DeleteAddress(address) ==
    IF ~has_imported_address(db.imported_addresses, address)
    THEN /\ res' = [op |-> "delete_address", address |-> address, deleted |-> FALSE]
         /\ UNCHANGED <<db, frozen_addresses, imported_frame>>
    ELSE LET to_remove == transactions_to_remove(address)
             mine == imported_is_mine(address)
             pubkey == get_public_key(address)
             imported_addresses == remove_address(db.imported_addresses, address)
             delete_key == pubkey # NoPubkey /\ ~key_still_used(imported_addresses, pubkey)
         IN  /\ frozen_addresses' =
                   IF mine THEN frozen_addresses \ {address} ELSE frozen_addresses
             /\ db' = [db EXCEPT
                          !.history = remove_address(@, address),
                          !.transactions = @ \ to_remove,
                          !.labels = @ \ {address},
                          !.payment_requests = @ \ {address},
                          !.frozen_addresses = IF mine THEN frozen_addresses' ELSE @,
                          !.imported_addresses = imported_addresses,
                          !.keystore.keypairs = IF delete_key THEN @ \ {pubkey} ELSE @]
             /\ res' = [op |-> "delete_address", address |-> address, deleted |-> TRUE,
                        removed |-> to_remove, pubkey |-> pubkey, key_deleted |-> delete_key,
                        was_frozen |-> address \in frozen_addresses,
                        was_labelled |-> address \in db.labels,
                        was_requested |-> address \in db.payment_requests]
             /\ UNCHANGED imported_frame

\* An imported wallet without addresses, with a keystore or watching-only.
InitImported ==
    /\ InitSyncVars
    /\ IdleSignVars
    /\ wallet_tx = [txid |-> "none", inputs |-> {}, outputs |-> << >>, final |-> TRUE,
                    height |-> "local"]
    /\ tx_fee_known = FALSE
    /\ lock = [owner |-> NoOwner, count |-> 0]
    /\ threads = [t \in Threads |-> IdleThread]
    /\ frozen_addresses = {}
    /\ frozen_coins = {}
    /\ gap_limit = GapLimit
    /\ \E present \in BOOLEAN : db = [EmptyDb EXCEPT !.keystore.present = present]
    /\ network = NoNetwork
    /\ utxos = {}
    /\ batch_rbf = FALSE
    /\ history = << >>
    /\ res = [op |-> "none"]
    /\ unused_change_addresses = change_addresses

NextImported ==
    \/ \E key \in WifKeys : ImportPrivateKey(key)
    \/ \E address \in WatchedAddresses : ImportAddress(address)
    \/ \E address \in ImportableAddresses, tx_hash \in TxHashes :
            ReceiveHistory(address, tx_hash)
    \/ \E name \in DOMAIN db.imported_addresses : SetLabel(name)
    \/ \E addr \in ImportableAddresses, memo \in BOOLEAN : AddPaymentRequest(addr, memo)
    \/ \E addr \in ImportableAddresses : FreezeImportedAddress(addr)
    \/ \E address \in ImportableAddresses : DeleteAddress(address)

SpecImported == InitImported /\ [][NextImported]_vars

\* The last call was op and returned a transaction.
returned(op) == res.op = op /\ res.out.status = "ok"

\* fee + 1 >= rate * size, with the rate in hundredths of a satoshi per vbyte
meets_fee_target(tx, rate) == (get_fee(tx) + 1) * RATE_UNIT >= rate * estimated_size(tx)

C7_NoInputFromReplacedTx ==
    returned("bump_fee") =>
        \A c \in res.out.tx.inputs : c.prevout_txid # wallet_tx.txid

\* C7 witness: the caller supplied coins that include an output of the
\* replaced transaction, and the coin chooser added an input.
C7_Witness ==
    /\ returned("bump_fee")
    /\ res.out.method_used = 1
    /\ res.coins.given
    /\ \E c \in res.coins.coins : c.prevout_txid = wallet_tx.txid
    /\ res.out.tx.inputs # wallet_tx.inputs

\* C8: bump_fee raises CannotBumpFee, having attempted neither method, when
\* the transaction is final, when its fee is unknown to the wallet, or when
\* the quantized new_fee_rate is not higher than current fee / current size.
C8_BumpFeePreconditions ==
    ( /\ res.op = "bump_fee"
      /\ \/ wallet_tx.final
         \/ ~tx_fee_known
         \/ quantize_feerate(res.new_fee_rate) * estimated_size(wallet_tx)
               <= get_fee(wallet_tx) * RATE_UNIT )
    => (res.out.status = "CannotBumpFee" /\ res.out.attempted = {})

\* C8 witness: a replaceable transaction of known fee was refused because the
\* new rate, once quantized, equals its current rate.
C8_Witness ==
    /\ res.op = "bump_fee"
    /\ ~wallet_tx.final
    /\ tx_fee_known
    /\ res.new_fee_rate * estimated_size(wallet_tx) > get_fee(wallet_tx) * RATE_UNIT
    /\ quantize_feerate(res.new_fee_rate) * estimated_size(wallet_tx)
          = get_fee(wallet_tx) * RATE_UNIT
    /\ res.out.status = "CannotBumpFee"
    /\ res.out.attempted = {}

\* The sum of the requested values of the outputs other than output i.
RECURSIVE other_values(_, _)
other_values(outputs, i) ==
    IF outputs = << >> THEN 0
    ELSE (IF i = 1 THEN 0 ELSE Head(outputs).value) + other_values(Tail(outputs), i - 1)

\* C9: with exactly one '!' output, make_unsigned_transaction spends every
\* supplied coin, gives the '!' output total input value - other outputs -
\* fee, keeps the other outputs as requested, and raises NotEnoughFunds
\* exactly when that amount is negative.
C9_SpendMax ==
    ( /\ res.op = "make_unsigned_transaction"
      /\ ~res.has_signatures
      /\ Cardinality(spend_max_indices(res.outputs)) = 1 )
    => LET i == CHOOSE i \in spend_max_indices(res.outputs) : TRUE
           size == estimated_size(from_io(res.coins, res.outputs))
           amount == sum_coins(res.coins) - other_values(res.outputs, i)
                        - estimate(fee_estimator_of(res.fee), size)
       IN  IF amount < 0
           THEN res.out.status = "NotEnoughFunds"
           ELSE /\ res.out.status = "ok"
                /\ res.out.tx.inputs = res.coins
                /\ res.out.tx.outputs = [res.outputs EXCEPT ![i].value = amount]

\* C9 witness: several coins were spent to a '!' output next to another output.
C9_Witness ==
    /\ returned("make_unsigned_transaction")
    /\ Cardinality(res.coins) > 1
    /\ Len(res.outputs) > 1
    /\ Cardinality(spend_max_indices(res.outputs)) = 1

\* C10: for every transaction make_unsigned_transaction, bump_fee, cpfp and
\* sweep return, inputs = outputs + fee: the fee is exactly the explicit fee
\* (or the estimate at the configured rate) for the spend-max builder, cpfp
\* and sweep, and at least the estimate where the coin chooser built the
\* transaction; a fee bump pays more than the transaction it replaces.
C10_ValueConservation ==
    /\ returned("make_unsigned_transaction") =>
          IF spend_max_indices(res.outputs) # {}
          THEN get_fee(res.out.tx) = estimate(fee_estimator_of(res.fee), estimated_size(res.out.tx))
          ELSE get_fee(res.out.tx) >= estimate(fee_estimator_of(res.fee), estimated_size(res.out.tx))
    /\ returned("bump_fee") => get_fee(res.out.tx) >= get_fee(wallet_tx)
    /\ returned("cpfp") => get_fee(res.out.tx) = res.fee
    /\ returned("sweep") =>
          get_fee(res.out.tx) = estimate(fee_estimator_of(res.fee), estimated_size(res.out.tx))

\* C10 witness: cpfp returned a child transaction for an explicit fee.
C10_Witness ==
    /\ returned("cpfp")
    /\ res.fee > 0
    /\ output_value(res.out.tx) > 0

called(op) == res.op = op

\* C11 (as stated): make_unsigned_transaction raises MultipleSpendMaxTxOutputs
\* whenever more than one requested output is '!', before any coin is
\* annotated; with at most one '!' it never raises that error.
C11_MultipleSpendMaxAlwaysRaised ==
    called("make_unsigned_transaction") =>
        IF Cardinality(spend_max_indices(res.outputs)) > 1
        THEN res.out.status = "MultipleSpendMaxTxOutputs" /\ res.out.annotated = {}
        ELSE res.out.status # "MultipleSpendMaxTxOutputs"

\* C11 (amended): the same, for calls whose coins carry no signature; the
\* signature test comes first, so with a signed coin and several '!' outputs
\* the call raises the generic exception instead.  In both cases no coin has
\* been annotated.
C11_MultipleSpendMaxRaisedUnlessSigned ==
    called("make_unsigned_transaction") =>
        IF Cardinality(spend_max_indices(res.outputs)) > 1
        THEN /\ res.out.annotated = {}
             /\ res.out.status = IF res.has_signatures THEN "Exception"
                                 ELSE "MultipleSpendMaxTxOutputs"
        ELSE res.out.status # "MultipleSpendMaxTxOutputs"

\* C11 witness: a call with unsigned coins and two '!' outputs was refused.
C11_Witness ==
    /\ called("make_unsigned_transaction")
    /\ res.coins # {}
    /\ ~res.has_signatures
    /\ Cardinality(spend_max_indices(res.outputs)) = 2
    /\ res.out.status = "MultipleSpendMaxTxOutputs"

\* C12: make_unsigned_transaction raises whenever a supplied coin already
\* carries a signature, whatever the outputs and the fee, and no coin has been
\* annotated when it does; the call leaves the wallet's state as it was.
C12_SignedInputsRefused ==
    called("make_unsigned_transaction") /\ res.has_signatures =>
        /\ res.out.status = "Exception"
        /\ res.out.annotated = {}

\* C12 witness: a call with signed coins and an otherwise valid request was
\* refused.
C12_Witness ==
    /\ called("make_unsigned_transaction")
    /\ res.has_signatures
    /\ res.coins # {}
    /\ Cardinality(spend_max_indices(res.outputs)) = 1
    /\ res.out.status = "Exception"

\* The outputs of a list as a bag (the order of the outputs left aside).
bag_of(outputs) ==
    [o \in Range(outputs) |-> Cardinality({i \in DOMAIN outputs : outputs[i] = o})]

\* tx keeps the old inputs and has the outputs kept, and besides them at most
\* one output, which pays the change to a change address of the wallet.
keeps_inputs_and_outputs(tx, old_tx, kept) ==
    /\ old_tx.inputs \subseteq tx.inputs
    /\ \/ bag_of(tx.outputs) = bag_of(kept)
       \/ \E i \in DOMAIN tx.outputs :
             /\ is_change(tx.outputs[i].address)
             /\ bag_of(SubSeq(tx.outputs, 1, i - 1) \o SubSeq(tx.outputs, i + 1, Len(tx.outputs)))
                   = bag_of(kept)

\* C13 (as stated): a bump through the coin chooser keeps every original
\* input and every output of the original that is not a change output,
\* wallet-owned receiving outputs included; only the change is recomputed.
C13_KeepsAllNonChangeOutputs ==
    returned("bump_fee") /\ res.out.method_used = 1 =>
        keeps_inputs_and_outputs(res.out.tx, wallet_tx,
                                 SelectSeq(wallet_tx.outputs, not_is_change_output))

\* C13 (amended): a bump through the coin chooser keeps every original input.
\* If the original has a change output it keeps every output that is not a
\* change output; if it has none, it keeps the outputs that are not the
\* wallet's and drops the wallet's own receiving outputs.
C13_KeepsNonChangeOrForeignOutputs ==
    returned("bump_fee") /\ res.out.method_used = 1 =>
        keeps_inputs_and_outputs(res.out.tx, wallet_tx,
            IF \E i \in DOMAIN wallet_tx.outputs : is_change(wallet_tx.outputs[i].address)
            THEN SelectSeq(wallet_tx.outputs, not_is_change_output)
            ELSE SelectSeq(wallet_tx.outputs, not_is_mine_output))

\* C13 witness: the coin chooser bumped a transaction that pays a foreign
\* address and a receiving address of the wallet and has no change output.
C13_Witness ==
    /\ returned("bump_fee")
    /\ res.out.method_used = 1
    /\ \E i \in DOMAIN wallet_tx.outputs : ~address_is_mine(wallet_tx.outputs[i].address)
    /\ \E i \in DOMAIN wallet_tx.outputs :
          /\ address_is_mine(wallet_tx.outputs[i].address)
          /\ ~is_change(wallet_tx.outputs[i].address)
    /\ \A i \in DOMAIN wallet_tx.outputs : ~is_change(wallet_tx.outputs[i].address)

\* The list without the elements at the indices in D.
remove_at(outputs, D) ==
    LET K == DOMAIN outputs \ D
        nth(j) == CHOOSE i \in K : Cardinality({k \in K : k < i}) = j - 1
    IN  [j \in 1 .. Cardinality(K) |-> outputs[nth(j)]]

\* The indices of the outputs Method B may decrease: the wallet's own outputs,
\* and all outputs if the wallet owns none.
candidate_indices(outputs) ==
    LET own == {i \in DOMAIN outputs : address_is_mine(outputs[i].address)}
    IN  IF own # {} THEN own ELSE DOMAIN outputs

\* new_outputs are old_outputs after the candidates at D were removed and the
\* value of the candidate at r (none if r = 0) was lowered to v, where the
\* candidates were taken in ascending order of value: no removed candidate is
\* worth more than one that stays, and the lowered one is worth no more than
\* the candidates left untouched.
decreased_in_ascending_order(old_outputs, new_outputs, D, r, v) ==
    LET C == candidate_indices(old_outputs)
    IN  /\ D \subseteq C
        /\ r \in (C \ D) \cup {0}
        /\ r # 0 => v < old_outputs[r].value
        /\ new_outputs = remove_at(IF r = 0 THEN old_outputs
                                   ELSE [old_outputs EXCEPT ![r].value = v], D)
        /\ \A d \in D, k \in C \ D : old_outputs[d].value <= old_outputs[k].value
        /\ r # 0 => \A k \in C \ D : old_outputs[r].value <= old_outputs[k].value

\* The output-shrinking method returned a transaction: to bump_fee, which
\* returned it, or to a direct caller.
shrunk ==
    \/ returned("bump_fee") /\ res.out.method_used = 2
    \/ returned("_bump_fee_through_decreasing_outputs")

\* C14: a transaction that the output-shrinking method returns has exactly the inputs of the original; if the original has an output of
\* the wallet, its outputs that are not the wallet's are kept with their
\* values; and the outputs were removed or lowered in ascending order of
\* value.
C14_ShrinkKeepsInputsAndForeignOutputs ==
    shrunk =>
        /\ res.out.tx.inputs = wallet_tx.inputs
        /\ (\E i \in DOMAIN wallet_tx.outputs : address_is_mine(wallet_tx.outputs[i].address))
              => SelectSeq(res.out.tx.outputs, not_is_mine_output)
                    = SelectSeq(wallet_tx.outputs, not_is_mine_output)
        /\ \E D \in SUBSET DOMAIN wallet_tx.outputs, r \in 0 .. Len(wallet_tx.outputs) :
              \E v \in {res.out.tx.outputs[i].value : i \in DOMAIN res.out.tx.outputs} \cup {0} :
                 decreased_in_ascending_order(wallet_tx.outputs, res.out.tx.outputs, D, r, v)

\* C14 witness: the shrinking method lowered or removed an output of the
\* wallet in a transaction that also pays a foreign address.
C14_Witness ==
    /\ shrunk
    /\ res.out.tx.outputs # wallet_tx.outputs
    /\ \E i \in DOMAIN wallet_tx.outputs : ~address_is_mine(wallet_tx.outputs[i].address)
    /\ \E i \in DOMAIN wallet_tx.outputs : address_is_mine(wallet_tx.outputs[i].address)

\* C15 (as stated): the output-shrinking method never returns a transaction
\* without outputs, neither to bump_fee nor to a direct caller; when every
\* candidate output would have to go it raises CannotBumpFee.
C15_ShrinkNeverReturnsEmptyOutputs ==
    shrunk => res.out.tx.outputs # << >>

\* bump_fee was called on a replaceable transaction with a known fee and a
\* higher rate, and the transaction has no change output and only outputs of
\* the wallet: the coin-chooser method cannot tell which outputs to keep.
undecidable_outputs_bump ==
    /\ called("bump_fee")
    /\ ~wallet_tx.final
    /\ tx_fee_known
    /\ quantize_feerate(res.new_fee_rate) * estimated_size(wallet_tx) > get_fee(wallet_tx) * RATE_UNIT
    /\ \A i \in DOMAIN wallet_tx.outputs :
          /\ address_is_mine(wallet_tx.outputs[i].address)
          /\ ~is_change(wallet_tx.outputs[i].address)

\* C16 (as stated): in that case bump_fee raises an error and does not pick
\* outputs to shrink on its own.
C16_UndecidableOutputsSurfaced ==
    undecidable_outputs_bump =>
        /\ res.out.status # "ok"
        /\ 2 \notin res.out.attempted

\* C16 (amended): in that case bump_fee catches the CannotBumpFee of the
\* coin-chooser method and goes on to the output-shrinking method; it returns
\* that method's transaction, with outputs of the wallet lowered or removed,
\* and raises only if that method fails too.
C16_UndecidableOutputsShrunk ==
    undecidable_outputs_bump =>
        /\ res.out.attempted = {1, 2}
        /\ res.out.status = "ok" =>
              /\ res.out.method_used = 2
              /\ res.out.tx.inputs = wallet_tx.inputs
              /\ output_value(res.out.tx) < output_value(wallet_tx)
        /\ res.out.status # "ok" =>
              bump_fee_through_decreasing_outputs(wallet_tx, quantize_feerate(res.new_fee_rate)).status
                  = "CannotBumpFee"

\* C16 witness: bump_fee returned a transaction for a transaction that pays
\* two receiving addresses of the wallet and has no change output.
C16_Witness ==
    /\ undecidable_outputs_bump
    /\ Len(wallet_tx.outputs) = 2
    /\ returned("bump_fee")
    /\ res.out.method_used = 2

\* The index of the first output of the wallet's transaction that pays the
\* wallet, 0 if there is none.
first_own_output ==
    LET own == {i \in DOMAIN wallet_tx.outputs : address_is_mine(wallet_tx.outputs[i].address)}
    IN  IF own = {} THEN 0 ELSE CHOOSE i \in own : \A j \in own : i <= j

\* out is the child transaction of the first own output of the wallet's
\* transaction: that outpoint is its sole input, and its sole output pays the
\* output's value less the fee to the first unused receiving address, or to
\* the output's own address if no receiving address is unused.
child_of_first_own_output(out, fee) ==
    LET i == first_own_output
        unused == SelectSeq(receiving_addresses, not_used)
    IN  /\ out.status = "ok"
        /\ out.tx.inputs = {[prevout_txid |-> wallet_tx.txid, prevout_n |-> i,
                             value |-> wallet_tx.outputs[i].value,
                             address |-> wallet_tx.outputs[i].address]}
        /\ Len(out.tx.outputs) = 1
        /\ out.tx.outputs[1].value = wallet_tx.outputs[i].value - fee
        /\ address_is_mine(out.tx.outputs[1].address)
        /\ out.tx.outputs[1].address = IF unused # << >> THEN unused[1]
                                       ELSE wallet_tx.outputs[i].address

batched_onto_mempool_tx ==
    /\ returned("make_unsigned_transaction")
    /\ res.out.batched
    /\ wallet_tx.height = "unconfirmed"

\* C20: a transaction batched onto a base transaction in the mempool has
\* every input of the base and none that spends an output of the base; its
\* outputs are the requested ones, the non-change outputs of the base and at
\* most one change output; and its fee is at least the fee of the base plus
\* the relay fee rate times the size it has more than the base.  Batching
\* happens only with batch_rbf set and a replaceable base.
C20_BatchingKeepsBaseAndPaysForGrowth ==
    batched_onto_mempool_tx =>
        /\ batch_rbf /\ ~wallet_tx.final
        /\ \A c \in res.out.tx.inputs : c.prevout_txid # wallet_tx.txid
        /\ keeps_inputs_and_outputs(res.out.tx, wallet_tx,
              res.outputs \o SelectSeq(wallet_tx.outputs, not_is_change_output))
        /\ get_fee(res.out.tx) * RATE_UNIT >=
              get_fee(wallet_tx) * RATE_UNIT
                 + RELAY_FEERATE * (estimated_size(res.out.tx) - estimated_size(wallet_tx))

\* C20 witness: a payment was batched onto a mempool transaction with a
\* foreign output, an own output offered as a coin was left alone, and
\* another coin was added.
C20_Witness ==
    /\ batched_onto_mempool_tx
    /\ \E c \in res.coins : c.prevout_txid = wallet_tx.txid
    /\ \E i \in DOMAIN wallet_tx.outputs : ~address_is_mine(wallet_tx.outputs[i].address)
    /\ wallet_tx.inputs # res.out.tx.inputs
    /\ ~res.fee.given

\* The unspent outputs the server lists for the keys of a sweep, in the order
\* of the keys.
RECURSIVE listed_for(_)
listed_for(privkeys) ==
    IF privkeys = << >> THEN << >>
    ELSE listunspent_for_scripthash(Head(privkeys)) \o listed_for(Tail(privkeys))

\* C19: sweep returns a transaction with no more than imax inputs, which are
\* the first listed unspent outputs of the keys and are all signed, and with
\* one output, which pays their total less the fee to to_address; it raises
\* when no unspent output is listed for any key and when the total less the
\* fee is negative or below the dust threshold.
C19_SweepSingleOutputWithinLimit ==
    called("sweep") =>
        LET listed == listed_for(res.privkeys)
            n == IF Len(listed) < res.imax THEN Len(listed) ELSE res.imax
            inputs == {listed[i] : i \in 1 .. n}
            total == sum_coins(inputs)
            fee == IF res.fee.given THEN res.fee.value
                   ELSE estimate_fee_for_feerate(CONFIG_FEERATE,
                            estimated_size(from_io(inputs, <<TxOutput(foreign_address(1), total)>>)))
        IN  IF listed = << >> \/ total - fee < 0 \/ total - fee < DUST_THRESHOLD
            THEN res.out.status = "Exception"
            ELSE /\ res.out.status = "ok"
                 /\ Cardinality(res.out.tx.inputs) <= res.imax
                 /\ res.out.tx.inputs = inputs
                 /\ res.out.signed = res.out.tx.inputs
                 /\ res.out.tx.outputs = <<TxOutput(foreign_address(1), total - fee)>>

\* C19 witness: a sweep of two keys with three unspent outputs between them
\* and a limit of one input returned a transaction.
C19_Witness ==
    /\ returned("sweep")
    /\ Len(res.privkeys) = 2
    /\ Len(listed_for(res.privkeys)) > res.imax
    /\ Cardinality(res.out.tx.inputs) = res.imax

\* C18 (as stated): get_tx_info reports can_dscancel, true for an unconfirmed
\* replaceable transaction of the wallet unless all its outputs are the
\* wallet's; and for such a transaction dscancel returns a transaction with
\* one output, which pays a wallet address, with inputs of the original, and
\* with a fee of at least new_fee_rate times its size.
C18_DoubleSpendCancelOffered ==
    /\ called("get_tx_info") =>
          /\ "can_dscancel" \in DOMAIN res.out
          /\ res.out.can_dscancel =
                /\ ~wallet_tx.final
                /\ \E i \in DOMAIN wallet_tx.outputs :
                      ~address_is_mine(wallet_tx.outputs[i].address)
    /\ (/\ called("dscancel")
        /\ ~wallet_tx.final
        /\ \E i \in DOMAIN wallet_tx.outputs : ~address_is_mine(wallet_tx.outputs[i].address)
        /\ quantize_feerate(res.new_fee_rate) * estimated_size(wallet_tx)
              > get_fee(wallet_tx) * RATE_UNIT)
          => /\ res.out.status = "ok"
             /\ Len(res.out.tx.outputs) = 1
             /\ address_is_mine(res.out.tx.outputs[1].address)
             /\ res.out.tx.inputs \subseteq wallet_tx.inputs
             /\ res.out.tx.inputs # {}
             /\ meets_fee_target(res.out.tx, quantize_feerate(res.new_fee_rate))

\* A history item get_unconfirmed_base_tx_for_batching may return, whether
\* or not it is final: not mined, in the mempool or local, outgoing, in the
\* database, with no own output spent and all inputs the wallet's.
batchable(h) ==
    /\ h.conf = 0
    /\ h.height \in {"unconfirmed", "unconf_parent", "local"}
    /\ h.delta < 0
    /\ h.in_db
    /\ ~h.own_output_spent
    /\ h.all_inputs_mine

\* C21 (as stated): the transaction returned is unconfirmed, outgoing, has
\* only inputs of the wallet and no own output spent, and is not final,
\* whether it is local or in the mempool; and no local transaction is
\* returned while the history holds such a transaction in the mempool.
C21_BaseTxIsBumpable ==
    called("get_unconfirmed_base_tx_for_batching") /\ res.out.found =>
        /\ batchable(res.out.item)
        /\ ~res.out.item.final
        /\ res.out.item.height = "local" =>
              ~\E i \in DOMAIN history :
                  /\ batchable(history[i])
                  /\ history[i].height # "local"
                  /\ ~history[i].final

\* C21 (amended): the same, except that only a transaction in the mempool
\* has to be not final: a local transaction is returned even if it is final.
\* The transaction returned is the first suitable one in the mempool, and
\* without one the last suitable local one; none is returned only if the
\* history holds neither.
C21_BaseTxIsBumpableUnlessLocal ==
    called("get_unconfirmed_base_tx_for_batching") =>
        LET mempool == {i \in DOMAIN history :
                          /\ batchable(history[i])
                          /\ history[i].height # "local"
                          /\ ~history[i].final}
            local == {i \in DOMAIN history :
                          batchable(history[i]) /\ history[i].height = "local"}
        IN  IF mempool # {}
            THEN /\ res.out.found
                 /\ res.out.item = history[CHOOSE i \in mempool : \A j \in mempool : i <= j]
            ELSE IF local # {}
            THEN /\ res.out.found
                 /\ res.out.item = history[CHOOSE i \in local : \A j \in local : i >= j]
            ELSE ~res.out.found

\* C21 witness: a transaction in the mempool was returned although a suitable
\* local transaction comes before it in the history.
C21_Witness ==
    /\ called("get_unconfirmed_base_tx_for_batching")
    /\ res.out.found
    /\ res.out.item.height = "unconfirmed"
    /\ res.out.item.txid = 2
    /\ batchable(history[1])
    /\ history[1].height = "local"

\* The addresses of a branch that at least limit consecutive unused addresses
\* directly precede.
preceded_by_unused(addrs, limit) ==
    {addrs[i] : i \in {j \in DOMAIN addrs :
                          /\ j > limit
                          /\ \A k \in (j - limit) .. (j - 1) : ~has_history(addrs[k])}}

\* C22 (as stated): get_all_known_addresses_beyond_gap_limit reports exactly
\* the known addresses, used or unused, that at least gap_limit consecutive
\* unused addresses of their branch precede.
C22_BeyondGapLimitReported ==
    get_all_known_addresses_beyond_gap_limit
        = preceded_by_unused(receiving_addresses, GapLimit)
             \cup preceded_by_unused(change_addresses, gap_limit_for_change)

\* What the code reports: the unused addresses beyond the gap limit, and only
\* those; a used address never is.
C22_UnusedBeyondGapLimitReported ==
    get_all_known_addresses_beyond_gap_limit
        = {a \in preceded_by_unused(receiving_addresses, GapLimit)
                    \cup preceded_by_unused(change_addresses, gap_limit_for_change) :
              ~has_history(a)}

\* The stored address is not the one derived from its recorded index.
corrupted(addr) ==
    /\ addr # NoAddress
    /\ address_is_mine(addr)
    /\ addr # derive_address(db_get_address_index(addr)[1], db_get_address_index(addr)[2])

\* The addresses the last call handed to its caller.
handed_out ==
    IF res.op \in {"get_unused_address", "get_receiving_address"} /\ res.ret.status = "ok"
    THEN {res.ret.out} \ {NoAddress}
    ELSE IF res.op = "get_change_addresses_for_new_transaction" /\ res.ret.status = "ok"
    THEN Range(res.ret.out)
    ELSE {}

\* C23: check_address raises InternalAddressCorruption whenever a wallet
\* address's recorded index derives a different address; no address handed out
\* by get_change_addresses_for_new_transaction, get_unused_address or
\* get_receiving_address is corrupted; and none of these calls changes the
\* stored address sequences.
C23_CorruptedAddressNeverReturned ==
    /\ [](/\ res.op = "check_address" /\ corrupted(res.addr)
                => res.status = "InternalAddressCorruption"
          /\ \A a \in handed_out : ~corrupted(a))
    /\ [][/\ receiving_addresses' = receiving_addresses
          /\ change_addresses' = change_addresses]_vars

\* C23 witness: a getter met a corrupted address and raised instead of
\* returning it.
C23_Witness ==
    /\ res.op \in {"get_unused_address", "get_receiving_address",
                   "get_change_addresses_for_new_transaction"}
    /\ res.ret.status = "InternalAddressCorruption"
    /\ \E a \in Range(receiving_addresses) \cup Range(change_addresses) : corrupted(a)

\* C24: derive_address(branch, index) is reproducible: every stored address is
\* still what derive_address gives for its index after any synchronize and
\* create_new_address calls, a repeated call returns the address of the earlier
\* call, and the address and script of a multisig wallet are the same for every
\* order in which the cosigner keystores are listed.
C24_DeriveAddressReproducible ==
    /\ \A for_change \in Branches : \A i \in DOMAIN addresses_of(for_change) :
          addresses_of(for_change)[i] = derive_address(for_change, i - 1)
    /\ res.op = "derive_address" =>
          /\ res.address = derive_address(res.for_change, res.n)
          /\ \A keystores \in KeystoreListings :
                /\ multisig_derive_address(keystores, res.for_change, res.n)
                       = res.multisig_address
                /\ pubkeys_to_scriptcode(derive_pubkeys(keystores, res.for_change, res.n))
                       = res.script

\* C24 witness: derive_address was called on a multisig wallet whose keystores
\* are listed in an order that is not the order of their public keys, and the
\* wallet has created addresses since construction.
C24_Witness ==
    /\ res.op = "derive_address"
    /\ derive_pubkeys(res.keystores, res.for_change, res.n) # res.script.public_keys
    /\ Len(receiving_addresses) > GapLimit

\* No keystore of wallet w can sign the input: it is not the wallet's, or the
\* wallet's key is not among the keys of its script.
not_signable_by(w, txin) ==
    \/ is_watching_only(w)
    \/ ~is_mine(w, txin.owner)
    \/ w \notin pubkeys_of(txin.owner)

\* C26: sign_transaction returns for every transaction a party may hold and
\* every wallet; an input the wallet cannot sign keeps exactly its signatures, no signature present before the
\* call is removed or replaced on any input, and a watching-only wallet or a
\* transaction that is not partial leaves the transaction as it was.
C26_SignKeepsOtherSignatures ==
    \A w \in Wallets, v \in Views :
       LET before == txs[v]
           after == sign_transaction(w, before)
       IN  /\ DOMAIN after.inputs = DOMAIN before.inputs
           /\ \A i \in DOMAIN before.inputs :
                 /\ not_signable_by(w, before.inputs[i]) =>
                       /\ after.inputs[i].part_sigs = before.inputs[i].part_sigs
                       /\ after.inputs[i].script_sig = before.inputs[i].script_sig
                 /\ \A k \in Pubkeys :
                       before.inputs[i].part_sigs[k] # NoSig =>
                          after.inputs[i].part_sigs[k] = before.inputs[i].part_sigs[k]
                 /\ Range(before.inputs[i].script_sig) \subseteq sig_set(after.inputs[i])
           /\ (is_watching_only(w) \/ before.kind # "partial") => after = before

\* C26 witness: a wallet has signed its input of a transaction that also has
\* an input of another wallet, which already carried a signature and kept it.
C26_Witness ==
    /\ last_op.op = "sign"
    /\ \E v \in Views : \E i, j \in DOMAIN txs[v].inputs :
          /\ txs[v].kind = "partial"
          /\ txs[v].inputs[i].owner = "std"
          /\ txs[v].inputs[i].part_sigs[STANDARD_WALLET] # NoSig
          /\ txs[v].inputs[j].owner = "ms"
          /\ num_sigs(txs[v].inputs[j]) = 1
          /\ signed_by[v] = {STANDARD_WALLET, 1}

\* The address is derived from the wallet's keystore at some index.
derived_by_wallet(address) ==
    \E for_change \in Branches, n \in 0 .. GapLimit + gap_limit_for_change :
       address = derive_address(for_change, n)

\* C25: can_sign(tx) answers true only for an incomplete partial transaction
\* with an input whose address is derived by the wallet and which the wallet's
\* keystore has yet to sign; no input of another address is the wallet's
\* (is_mine), whether or not the keystore finds its key in it and whether or
\* not add_info_from_wallet has run, and a transaction of such inputs only is
\* never answered true.
C25_CanSignOnlyOwnInputs ==
    /\ \A i \in DOMAIN txs.inputs :
          is_mine_given(txs.inputs[i].address, ephemeral_addr_to_addr_index)
             => derived_by_wallet(txs.inputs[i].address)
    /\ last_op.op = "can_sign" /\ last_op.out =>
          /\ last_op.tx.kind = "partial"
          /\ ~tx_is_complete(last_op.tx)
          /\ \E i \in DOMAIN last_op.tx.inputs :
                /\ derived_by_wallet(last_op.tx.inputs[i].address)
                /\ last_op.tx.inputs[i].part_sigs[STANDARD_WALLET] = NoSig

\* C25 witness: can_sign answered false for an unsigned partial transaction
\* whose cosigned input records a two-element path of the wallet's key, after
\* add_info_from_wallet had run on it.
C25_Witness ==
    /\ last_op.op = "can_sign"
    /\ ~last_op.out
    /\ last_op.tx.kind = "partial"
    /\ \E i \in DOMAIN last_op.tx.inputs :
          /\ last_op.tx.inputs[i].address = cosigned_address
          /\ last_op.tx.inputs[i].der_suffix = KeyPath(<<0, 0>>)
          /\ last_op.tx.inputs[i].part_sigs[STANDARD_WALLET] = NoSig
          /\ ~is_mine_given(cosigned_address, ephemeral_addr_to_addr_index)
          /\ \E j \in DOMAIN last_op.tx.inputs : last_op.tx.inputs[j].num_sig = 1

\* The input is of an address the wallet derives but has not generated, and
\* records the path of that address for the wallet's key, which has not signed.
signable_beyond_generated(txin) ==
    /\ derived_by_wallet(txin.address)
    /\ ~address_is_mine(txin.address)
    /\ txin.der_suffix = KeyPath(txin.address)
    /\ txin.part_sigs[STANDARD_WALLET] = NoSig

\* C27: sign_transaction signs an input of an address beyond the generated
\* ones when the partial transaction records the derivation path of its key;
\* an address is learned only with a two-element path from which
\* derive_address gives exactly that address; and learning an address leaves
\* the stored receiving and change sequences as they are.
C27_SignsBeyondGeneratedAddresses ==
    /\ [](/\ \A a \in DOMAIN ephemeral_addr_to_addr_index :
                /\ Len(ephemeral_addr_to_addr_index[a]) = 2
                /\ derive_address(ephemeral_addr_to_addr_index[a][1],
                                  ephemeral_addr_to_addr_index[a][2]) = a
          /\ last_op.op = "sign_transaction" /\ last_op.tx.kind = "partial" =>
                \A i \in DOMAIN last_op.tx.inputs :
                   signable_beyond_generated(last_op.tx.inputs[i])
                      => txs.inputs[i].part_sigs[STANDARD_WALLET] # NoSig)
    /\ [][ephemeral_addr_to_addr_index' # ephemeral_addr_to_addr_index =>
             /\ receiving_addresses' = receiving_addresses
             /\ change_addresses' = change_addresses]_vars

\* C27 witness: the wallet has generated GapLimit receiving addresses and has
\* signed an input of the next address, learned from the path in the input.
C27_Witness ==
    /\ last_op.op = "sign_transaction"
    /\ Len(receiving_addresses) = GapLimit
    /\ derive_address(0, GapLimit) \in DOMAIN ephemeral_addr_to_addr_index
    /\ \E i \in DOMAIN txs.inputs :
          /\ txs.inputs[i].address = derive_address(0, GapLimit)
          /\ last_op.tx.inputs[i].part_sigs[STANDARD_WALLET] = NoSig
          /\ txs.inputs[i].part_sigs[STANDARD_WALLET] # NoSig

\* No spendable coin is on a frozen address or is a frozen outpoint, and the
\* last call, if it froze or unfroze, left the unspent coins as they were.
frozen_never_spendable ==
    /\ \A utxo \in get_spendable_coins :
          /\ utxo.address \notin frozen_addresses
          /\ prevout_str(utxo) \notin frozen_coins
    /\ get_spendable_coins \subseteq utxos
    /\ res.op = "get_spendable_coins" => res.out = get_spendable_coins

freeze_round_trip == res.op # "none" /\ res.op # "get_spendable_coins" /\ res.round_trip.made

\* C28 (as stated): get_spendable_coins returns no coin on a frozen address
\* and no frozen outpoint; freezing a set and then unfreezing the same set
\* restores the spendable coins of before; the unspent coins never change.
C28_FreezeUnfreezeRestores ==
    /\ [](/\ frozen_never_spendable
          /\ freeze_round_trip => get_spendable_coins = res.round_trip.spendable)
    /\ [][utxos' = utxos]_vars

\* C28 (amended): get_spendable_coins returns no coin on a frozen address and
\* no frozen outpoint; freezing a set and then unfreezing the same set restores
\* the spendable coins of before if nothing of the set was frozen before, and
\* otherwise leaves frozen what was frozen before less the set, so that every
\* coin spendable before is spendable again; the unspent coins never change.
C28_FreezeUnfreezeRestoresIfDisjoint ==
    /\ [](/\ frozen_never_spendable
          /\ freeze_round_trip =>
                /\ res.round_trip.spendable \subseteq get_spendable_coins
                /\ res.round_trip.frozen \cap res.target = {}
                      => get_spendable_coins = res.round_trip.spendable
                /\ res.op = "set_frozen_state_of_addresses" /\ res.ok
                      => frozen_addresses = res.round_trip.frozen \ res.target
                /\ res.op = "set_frozen_state_of_coins"
                      => frozen_coins = res.round_trip.frozen \ res.target)
    /\ [][utxos' = utxos]_vars

\* C28 witness: addresses with coins were frozen and unfrozen again, a coin of
\* another address staying frozen, and the coins spendable before are back.
C28_Witness ==
    /\ res.op = "set_frozen_state_of_addresses"
    /\ res.round_trip.made
    /\ res.ok
    /\ \E utxo \in utxos : utxo.address \in res.target
    /\ res.round_trip.frozen \cap res.target = {}
    /\ frozen_coins # {}
    /\ get_spendable_coins = res.round_trip.spendable
    /\ get_spendable_coins # {}

\* tx and its copy have the same inputs, outputs, locktime, signatures and
\* txid, and serialize to the same bytes.
same_after_serialization(tx, tx_copy) ==
    /\ unsigned_part(tx_copy) = unsigned_part(tx)
    /\ \A i \in DOMAIN tx.inputs :
          /\ sig_set(tx_copy.inputs[i]) = sig_set(tx.inputs[i])
          /\ tx_copy.inputs[i].num_sig = tx.inputs[i].num_sig
    /\ tx_is_complete(tx_copy) = tx_is_complete(tx)
    /\ txid(tx_copy) = txid(tx)
    /\ serialize(tx_copy) = serialize(tx)

tip_is_fresh == network.connected /\ network.has_header /\ network.tip_age <= STALE_DELAY

\* C30: get_locktime_for_new_transaction returns 0 without a network, without
\* a tip header or with a tip header older than eight hours, and otherwise a
\* locktime between max(0, height - 99) and height.
C30_LocktimeWithinLastHundredBlocks ==
    res.op = "get_locktime_for_new_transaction" =>
       IF tip_is_fresh
       THEN /\ Max(0, network.height - 99) <= res.out
            /\ res.out <= network.height
       ELSE res.out = 0

\* C30 witness: on a chain of 50 blocks whose tip is exactly STALE_DELAY old
\* the jitter reached back past the first block and the call returned 0.
C30_Witness ==
    /\ res.op = "get_locktime_for_new_transaction"
    /\ tip_is_fresh
    /\ network.height = 50
    /\ network.tip_age = STALE_DELAY
    /\ res.out = 0

\* No thread is inside a wallet call.
all_idle == \A t \in Threads : threads[t].pc = "idle"

\* C31: the frozen sets are only changed by a thread that holds the wallet
\* lock, so that no freeze or unfreeze is lost: once every call has returned,
\* the stored frozen addresses and frozen coins are the ones the wallet holds
\* in memory.
C31_NoFreezeUpdateLost ==
    all_idle => /\ db.frozen_addresses = frozen_addresses
                /\ db.frozen_coins = frozen_coins

\* C31 (lock part): a thread that is between the update of a frozen set and
\* the return of db.put owns the wallet lock.
C31_FrozenSetsChangedUnderLock ==
    \A t \in Threads :
        threads[t].pc \in {"set_frozen_state:list", "set_frozen_state:put"} => lock.owner = t

\* C31 (address part): whatever the interleaving of the threads, the address
\* at position i of a branch is the one derived for index i: no index is used
\* twice and none is skipped.
C31_EveryIndexDerivedOnce ==
    \A b \in Branches :
        \A i \in DOMAIN addresses_of(b) : addresses_of(b)[i] = derive_address(b, i - 1)

\* The addresses of a branch after a step continue the ones before it: the
\* old list is a prefix of the new one and every added address is the one
\* derived for its position.
appended_only(old, new, for_change) ==
    /\ Len(new) >= Len(old)
    /\ SubSeq(new, 1, Len(old)) = old
    /\ \A i \in (Len(old) + 1) .. Len(new) : new[i] = derive_address(for_change, i - 1)

\* C32: the receiving and change address lists are append-only: every step
\* (synchronize, create_new_address, history updates) keeps the addresses
\* generated so far at their positions, and an added address is the one of the
\* next index, the number of addresses the branch had.
C32_AddressListsAppendOnly ==
    [][/\ appended_only(receiving_addresses, receiving_addresses', 0)
       /\ appended_only(change_addresses, change_addresses', 1)]_vars

\* C32 witness: beyond the initial addresses, synchronize() has extended the
\* receiving branch past history and create_new_address has been called on
\* the change branch.
C32_Witness ==
    /\ synced
    /\ Len(receiving_addresses) > GapLimit + 1
    /\ Len(change_addresses) > gap_limit_for_change
    /\ \E a \in Range(receiving_addresses) : address_is_old(a)

\* The thread is inside synchronize(), holding the lock.
in_synchronize(t) == threads[t].caller = "synchronize"

\* The branch has its limit of addresses and none of its last `limit`
\* addresses has deeply confirmed history.
gap_is_clean(for_change) ==
    /\ Len(addresses_of(for_change)) >= limit_of(for_change)
    /\ \A a \in last_few_addresses(addresses_of(for_change), limit_of(for_change)) :
          max_conf(a) < REQ_CONF

\* C33: synchronize() terminates; it appends an address to a branch only
\* while the branch has fewer than `limit` addresses or one of its last
\* `limit` addresses has deeply confirmed history, and it leaves the loop of
\* a branch in the first state in which neither is true.
C33_SynchronizeTerminates ==
    /\ \A t \in Threads : [](in_synchronize(t) => <>(threads[t].pc = "idle"))
    /\ [](\A t \in Threads :
             /\ in_synchronize(t) /\ threads[t].for_change = 1 => gap_is_clean(0)
             /\ in_synchronize(t) /\ threads[t].pc = "create_new_address"
                    => ~gap_is_clean(threads[t].for_change))
    /\ [][\A t \in Threads :
             in_synchronize(t) =>
                 /\ in_synchronize(t)' \/ (gap_is_clean(0)' /\ gap_is_clean(1)')
                 /\ \A b \in Branches :
                        addresses_of(b)' # addresses_of(b)
                            => b = threads[t].for_change /\ ~gap_is_clean(b)]_vars

\* C33 witness: synchronize() has returned after it extended the receiving
\* branch past deeply confirmed history.
C33_Witness ==
    /\ synced
    /\ all_idle
    /\ Len(receiving_addresses) > GapLimit
    /\ address_is_old(receiving_addresses[Len(receiving_addresses) - GapLimit])

\* The fee the output-shrinking method aims at: int(round(size * rate)).
shrinking_target_fee(tx, new_fee_rate) ==
    round_half_even(estimated_size(tx) * new_fee_rate, RATE_UNIT)

\* The outputs of tx that new_tx no longer has.
deleted_outputs(tx, new_tx) ==
    {i \in DOMAIN tx.outputs :
        \A j \in DOMAIN new_tx.outputs : new_tx.outputs[j].address # tx.outputs[i].address}

\* C34: when the output-shrinking method deletes an output whose value
\* exceeds the fee shortfall and a further candidate output is left, the
\* excess is credited to that output, so the fee of the transaction it
\* returns is the target fee, round(estimated_size * new_fee_rate).
C34_DeletedOutputExcessCredited ==
    returned("_bump_fee_through_decreasing_outputs") =>
        LET shortfall == shrinking_target_fee(wallet_tx, res.new_fee_rate) - get_fee(wallet_tx)
        IN  (/\ \E i \in deleted_outputs(wallet_tx, res.out.tx) :
                    wallet_tx.outputs[i].value > shortfall
             /\ \E j \in DOMAIN res.out.tx.outputs : is_mine_output(res.out.tx.outputs[j]))
                => get_fee(res.out.tx) = shrinking_target_fee(wallet_tx, res.new_fee_rate)

\* C34 (what the code does): the transaction the output-shrinking method
\* returns after deleting outputs pays all the value of the deleted outputs
\* as fee, on top of the shortfall if it decreased a further output.
C34_DeletedOutputValueBecomesFee ==
    returned("_bump_fee_through_decreasing_outputs") =>
        LET deleted == deleted_outputs(wallet_tx, res.out.tx)
        IN  get_fee(res.out.tx) >=
                get_fee(wallet_tx)
                    + sum_outputs(SelectSeq(wallet_tx.outputs,
                                            LAMBDA o : \E i \in deleted : wallet_tx.outputs[i] = o))

\* C35: every transaction mktx or sweep returns is final (no input signals
\* replace-by-fee), whatever rbf argument mktx was given; bump_fee on such a
\* transaction raises CannotBumpFee without attempting either method.
C35_MktxAndSweepReturnFinal ==
    /\ res.op \in {"mktx", "sweep"} /\ res.out.status = "ok" => is_final(res.out.tx)
    /\ res.op = "bump_fee" =>
          /\ is_final(res.tx)
          /\ res.out.status = "CannotBumpFee"
          /\ res.out.attempted = {}

\* C35 witness: mktx was called with rbf=True, and bump_fee was called on the
\* transaction it returned.
C35_Witness ==
    /\ res.op = "bump_fee"
    /\ res.from = "mktx"
    /\ res.rbf
    /\ res.out.status = "CannotBumpFee"

\* C36: in every state, whatever addresses were created and whatever
\* transactions were added and removed before, a call of
\* calc_unused_change_addresses() returns exactly the change addresses that
\* are not used, in derivation order.
C36_UnusedChangeAddressesExact ==
    calc_unused_change_addresses = SelectSeq(change_addresses, not_used)

\* C36 (what the code does): the list a call returns holds no used address,
\* and is a selection, in derivation order, of the change addresses.
C36_NoUsedAddressReturned ==
    /\ \A i \in DOMAIN calc_unused_change_addresses : not_used(calc_unused_change_addresses[i])
    /\ \E keep \in SUBSET Range(change_addresses) :
          calc_unused_change_addresses = SelectSeq(change_addresses, LAMBDA a : a \in keep)

\* C36 (consequence): a change address that is used is chosen for a new
\* transaction only if the wallet has no unused change address.
C36_UsedChangeAddressOnlyIfNoneUnused ==
    \A change_addrs \in change_addrs_for_new_transaction(<< >>) :
        (\E i \in DOMAIN change_addrs : is_used(change_addrs[i]))
            => SelectSeq(change_addresses, not_used) = << >>

\* C37: change_gap_limit(v) changes gap_limit only if v is at least one more
\* than the longest run of receiving addresses without deeply confirmed
\* history before the trailing run of addresses without history (also when
\* that trailing run is empty); otherwise it returns False and leaves
\* gap_limit and the stored value as they were.
C37_GapLimitAboveLongestRun ==
    res.op = "change_gap_limit" =>
        /\ res.ret => res.value >= res.longest_run + 1
        /\ res.min_acceptable_gap = res.longest_run + 1
        /\ ~res.ret => /\ gap_limit = res.before.gap_limit
                       /\ db.gap_limit = res.before.stored

\* C37, the part that holds: change_gap_limit(v) changes gap_limit and the
\* stored value to v exactly if v is at least min_acceptable_gap(), and
\* min_acceptable_gap() is one more than that longest run whenever the last
\* receiving address has no history.
C37_GapLimitAboveMinAcceptableGap ==
    /\ res.op = "change_gap_limit" =>
          /\ res.ret <=> res.value >= res.min_acceptable_gap
          /\ res.ret => gap_limit = res.value /\ db.gap_limit = res.value
          /\ ~res.ret => /\ gap_limit = res.before.gap_limit
                         /\ db.gap_limit = res.before.stored
    /\ num_unused_trailing_addresses(receiving_addresses) > 0
          => min_acceptable_gap = longest_run(before_trailing_run) + 1

\* C37: with history on the last receiving address, min_acceptable_gap() is 1.
C37_LastAddressUsedGivesOne ==
    /\ receiving_addresses # << >>
    /\ has_history(receiving_addresses[Len(receiving_addresses)])
    => min_acceptable_gap = 1

\* The transactions that are in the history of address and of no other
\* address of the wallet.
only_in_history_of(address) ==
    {tx_hash \in get_address_history(address) :
        \A other \in DOMAIN db.imported_addresses \ {address} :
            tx_hash \notin get_address_history(other)}

\* C38: delete_address(a) of an address of the wallet removes exactly the
\* transactions that are only in the history of a and keeps those that are
\* also in the history of another address of the wallet; afterwards a is
\* not an address of the wallet, not frozen, not labelled and not the key of
\* a payment request.
C38_DeleteAddressRemovesOwnTransactions ==
    [][\A a \in ImportableAddresses :
          imported_is_mine(a) /\ DeleteAddress(a)
          => /\ db'.transactions = db.transactions \ only_in_history_of(a)
             /\ a \notin DOMAIN db'.imported_addresses
             /\ a \notin frozen_addresses'
             /\ a \notin db'.frozen_addresses
             /\ a \notin db'.labels
             /\ a \notin db'.payment_requests
             /\ a \notin DOMAIN db'.history]_vars

\* C38 witness: an address that was frozen, labelled and the key of a payment
\* request was deleted; one of its transactions went with it and one, shared
\* with an address that is still in the wallet, stayed.
C38_Witness ==
    /\ res.op = "delete_address"
    /\ res.deleted
    /\ res.removed # {}
    /\ db.transactions # {}
    /\ \E other \in DOMAIN db.history : db.history[other] # {}
    /\ ~imported_is_mine(res.address)
    /\ res.was_frozen /\ res.was_labelled /\ res.was_requested
    /\ marks = 0

\* C39: delete_address(a) deletes the key of a from the keystore exactly if
\* no address that is still imported belongs to the same public key; the key
\* of every address that is still imported stays in the keystore.
C39_KeyDeletedIffUnused ==
    [][\A a \in ImportableAddresses :
          imported_is_mine(a) /\ get_public_key(a) # NoPubkey /\ DeleteAddress(a)
          => LET pubkey == get_public_key(a)
             IN  /\ pubkey \notin db'.keystore.keypairs
                    <=> ~\E b \in DOMAIN db'.imported_addresses :
                           db'.imported_addresses[b].pubkey = pubkey
                 /\ pubkey \in db.keystore.keypairs
                 /\ \A b \in DOMAIN db'.imported_addresses :
                       db'.imported_addresses[b].pubkey \in db'.keystore.keypairs]_vars

\* C39 witness: the p2pkh address of a key was deleted and the key stayed,
\* because the p2wpkh address of the same key is still imported.
C39_Witness ==
    /\ res.op = "delete_address"
    /\ res.deleted
    /\ res.pubkey # NoPubkey
    /\ ~res.key_deleted
    /\ res.pubkey \in db.keystore.keypairs
    /\ \E b \in DOMAIN db.imported_addresses :
          b # res.address /\ db.imported_addresses[b].pubkey = res.pubkey

\* C39 witness: the last address of a key was deleted and the key with it,
\* while another key is still in the keystore.
C39_WitnessDeleted ==
    /\ res.op = "delete_address"
    /\ res.deleted
    /\ res.key_deleted
    /\ res.pubkey \notin db.keystore.keypairs
    /\ db.imported_addresses # << >>

\* C40: cpfp(tx, fee) never returns a transaction whose output has a negative
\* value or a value below the dust threshold; when the fee exceeds what the
\* parent output can pay, it returns no transaction.
C40_CpfpOutputNotBelowDust ==
    called("cpfp") /\ res.out.status = "ok"
    => \A i \in DOMAIN res.out.tx.outputs : res.out.tx.outputs[i].value >= DUST_THRESHOLD

\* C40, the part that holds: the output of the transaction cpfp returns is at
\* or above the dust threshold exactly if the fee leaves that much of the
\* parent output; cpfp returns a transaction with a smaller or negative
\* output otherwise.
C40_CpfpOutputBelowDustIffFeeTooHigh ==
    called("cpfp") /\ first_own_output # 0
        /\ (\E c \in utxos : c.prevout_txid = wallet_tx.txid /\ c.prevout_n = first_own_output)
    => /\ res.out.status = "ok"
       /\ Len(res.out.tx.outputs) = 1
       /\ res.out.tx.outputs[1].value >= DUST_THRESHOLD
             <=> res.fee <= wallet_tx.outputs[first_own_output].value - DUST_THRESHOLD

\* C40: a fee above the value of the parent output gives a negative output.
C40_NoNegativeOutput ==
    called("cpfp") /\ res.out.status = "ok"
    => \A i \in DOMAIN res.out.tx.outputs : res.out.tx.outputs[i].value >= 0

====
